---- MODULE Spec2Model ----
(***************************************************************************)
(* A model of yt-search-lib: the localStorage-backed LRUCache              *)
(* (src/lib/cache.js) and YouTubeClient.search (src/index.js), the         *)
(* paginating search that follows continuation tokens, filters by type,    *)
(* removes ids already accumulated and caches the truncated result.        *)
(***************************************************************************)
EXTENDS Integers, Sequences, FiniteSets, TLC

VARIABLES
    now,        \* Date.now(), in milliseconds
    maxAge,     \* LRUCache.maxAge
    capacity,   \* LRUCache.capacity
    useCache,   \* YouTubeClient: this.cache is not null
    keys,       \* LRUCache.keys, the in-memory index, least recent first (one
                \* index per instance where two instances share the store)
    store,      \* localStorage: item name -> stored document
    lastOp,     \* what the caller of the last completed cache operation saw
    phase,      \* "inserting" while only sets of new keys happened, then "reading"
    inserted,   \* the keys set so far, in call order, until the phase is "other"
    pool,       \* the (query, limit, type) combinations this run searches for
    call,       \* per search call: its position, locals and what it observed
    fetched,    \* cache key -> result of the last fetched search that stored it
    cleared,    \* "yes": clearCache returned and no search call has started
                \* since; "refilled": so, but a call that was awaiting has
                \* returned and cached its result since; "no" otherwise
    used,       \* the keys of successful get hits and sets, least recent first
    input,      \* the argument of the function or request under study
    output      \* what it returned or threw, once applied

vars == <<now, maxAge, capacity, useCache, keys, store, lastOp, phase, inserted,
          pool, call, fetched, cleared, used, input, output>>
cacheVars == <<lastOp, phase, inserted>>
fnVars == <<input, output>>
clientVars == <<pool, call, fetched>>

-----------------------------------------------------------------------------
(* Bounds of the model *)

MaxTime == 2
MaxCapacity == 2
MaxAgeBound == 1
MaxLimit == 3
MaxPageLen == 2
PoolSize == 2
MaxCachedLimit == 1
MaxScenarioLimit == 5
MaxKeyLimit == 11
MaxRuns == 2
MaxContents == 2
MaxSections == 3

\* no function applied in this run / not applied yet
NoInput == [kind |-> "none"]
NotApplied == [kind |-> "pending"]

-----------------------------------------------------------------------------
(* Records, as far as search and the cache look at them *)

Ids == {"a", "b"}
RecordTypes == {"video", "channel", "playlist"}
Record(id, type) == [id |-> id, type |-> type]
\* the records upstream pages are made of: an id shared by two videos' pages,
\* an id shared across types, and every type
Records == {Record("a", "video"), Record("b", "video"),
            Record("a", "channel"), Record("b", "playlist")}

Range(s) == {s[i] : i \in DOMAIN s}

\* Array.prototype.indexOf + splice(index, 1): drops the first occurrence only
RECURSIVE RemoveFirst(_, _)
RemoveFirst(s, x) ==
    IF s = <<>> THEN <<>>
    ELSE IF Head(s) = x THEN Tail(s)
    ELSE <<Head(s)>> \o RemoveFirst(Tail(s), x)

\* Array.prototype.filter((k) => k !== x)
RECURSIVE FilterOut(_, _)
FilterOut(s, x) ==
    IF s = <<>> THEN <<>>
    ELSE IF Head(s) = x THEN FilterOut(Tail(s), x)
    ELSE <<Head(s)>> \o FilterOut(Tail(s), x)

-----------------------------------------------------------------------------
(* localStorage *)

Namespace == "yt_search_"
fullKey(key) == Namespace \o key
IndexName == Namespace \o "keys"

NullDoc == [kind |-> "null", value |-> <<>>, timestamp |-> 0, list |-> <<>>]
\* JSON.stringify({ value, timestamp })
ItemDoc(value, ts) == [kind |-> "item", value |-> value, timestamp |-> ts, list |-> <<>>]
\* JSON.stringify(keys)
KeysDoc(ks) == [kind |-> "keys", value |-> <<>>, timestamp |-> 0, list |-> ks]

\* text that JSON.parse rejects
CorruptDoc == [kind |-> "corrupt", value |-> <<>>, timestamp |-> 0, list |-> <<>>]

EmptyStore == [n \in {} |-> NullDoc]
getItem(st, name) == IF name \in DOMAIN st THEN st[name] ELSE NullDoc
setItem(st, name, doc) ==
    [n \in DOMAIN st \cup {name} |-> IF n = name THEN doc ELSE st[n]]
removeItem(st, name) == [n \in DOMAIN st \ {name} |-> st[n]]

-----------------------------------------------------------------------------
(* LRUCache: each operation maps the cache [keys, store] to the cache after *)

saveKeys(c, ks) ==
    [keys |-> ks, store |-> setItem(c.store, IndexName, KeysDoc(ks))]

\* a promotion that leaves the index as it is
promoteKeyNowhere(c, key) == c

promoteKey(c, key) ==
    IF key \in Range(c.keys)
    THEN saveKeys(c, Append(RemoveFirst(c.keys, key), key))
    ELSE c

\* remove that deletes the stored entry and leaves the index alone
removeKeepsIndex(c, key) ==
    [keys |-> c.keys, store |-> removeItem(c.store, fullKey(key))]

remove(c, key) ==
    saveKeys([keys |-> c.keys, store |-> removeItem(c.store, fullKey(key))],
             FilterOut(c.keys, key))

\* no eviction at all
evictNothing(c, cap) == c

\* while (this.keys.length > this.capacity) { shift; removeItem }
RECURSIVE evictNewest(_, _)
evictNewest(c, cap) ==
    IF Len(c.keys) > cap
    THEN evictNewest([keys |-> SubSeq(c.keys, 1, Len(c.keys) - 1),
                      store |-> removeItem(c.store, fullKey(c.keys[Len(c.keys)]))], cap)
    ELSE c

RECURSIVE evict(_, _)
evict(c, cap) ==
    IF Len(c.keys) > cap
    THEN evict([keys |-> Tail(c.keys),
                store |-> removeItem(c.store, fullKey(Head(c.keys)))], cap)
    ELSE c

\* set that pushes the key without taking its earlier occurrence out
setWithoutSplice(c, key, value, t, cap) ==
    LET kept == evict([keys |-> Append(c.keys, key), store |-> c.store], cap)
        saved == saveKeys(kept, kept.keys)
    IN [keys |-> saved.keys,
        store |-> setItem(saved.store, fullKey(key), ItemDoc(value, t))]

set(c, key, value, t, cap) ==
    LET pushed == [keys |-> Append(RemoveFirst(c.keys, key), key), store |-> c.store]
        kept == evict(pushed, cap)
        saved == saveKeys(kept, kept.keys)
    IN [keys |-> saved.keys,
        store |-> setItem(saved.store, fullKey(key), ItemDoc(value, t))]

\* get that expires an entry as soon as its age reaches maxAge
getExpiresAtAge(c, key, t, age) ==
    LET doc == getItem(c.store, fullKey(key))
    IN IF doc.kind = "item" /\ t - doc.timestamp < age
       THEN [keys |-> promoteKey(c, key).keys, store |-> promoteKey(c, key).store,
             hit |-> TRUE, value |-> doc.value]
       ELSE [keys |-> remove(c, key).keys, store |-> remove(c, key).store,
             hit |-> FALSE, value |-> <<>>]

\* get that reports an expired entry as absent but leaves it in place
getKeepsExpired(c, key, t, age) ==
    LET doc == getItem(c.store, fullKey(key))
    IN IF doc.kind = "item" /\ t - doc.timestamp <= age
       THEN [keys |-> promoteKey(c, key).keys, store |-> promoteKey(c, key).store,
             hit |-> TRUE, value |-> doc.value]
       ELSE [keys |-> c.keys, store |-> c.store, hit |-> FALSE, value |-> <<>>]

\* get that stamps the entry anew on a hit
getRefreshing(c, key, t, age) ==
    LET doc == getItem(c.store, fullKey(key))
    IN IF doc.kind = "item" /\ t - doc.timestamp <= age
       THEN [keys |-> promoteKey(c, key).keys,
             store |-> setItem(promoteKey(c, key).store, fullKey(key),
                               ItemDoc(doc.value, t)),
             hit |-> TRUE, value |-> doc.value]
       ELSE [keys |-> remove(c, key).keys, store |-> remove(c, key).store,
             hit |-> FALSE, value |-> <<>>]

\* the cache after get, with what get returned: hit is "returned a value"
get(c, key, t, age) ==
    LET doc == getItem(c.store, fullKey(key))
        miss(after) == [keys |-> after.keys, store |-> after.store,
                        hit |-> FALSE, value |-> <<>>]
    IN CASE doc.kind = "null" -> miss(c)
         [] doc.kind = "keys" ->
              \* an array has no timestamp: NaN > maxAge is false; value is undefined
              miss(promoteKey(c, key))
         [] doc.kind = "item" /\ t - doc.timestamp > age -> miss(remove(c, key))
         [] OTHER ->
              LET after == promoteKey(c, key)
              IN [keys |-> after.keys, store |-> after.store,
                  hit |-> TRUE, value |-> doc.value]

\* a sweep that deletes every stored entry, indexed here or not
removeEveryEntry(st, ks) == [n \in DOMAIN st \cap {IndexName} |-> st[n]]

RECURSIVE removeAll(_, _)
removeAll(st, ks) ==
    IF ks = <<>> THEN st
    ELSE removeAll(removeItem(st, fullKey(Head(ks))), Tail(ks))

\* clear that forgets the index but leaves the entries in the store
clearIndexOnly(c) ==
    [keys |-> <<>>, store |-> removeItem(c.store, IndexName)]

clear(c) ==
    [keys |-> <<>>, store |-> removeItem(removeAll(c.store, c.keys), IndexName)]

-----------------------------------------------------------------------------
(* LRUCache over a store whose calls can throw. F is the set of localStorage  *)
(* calls that throw while the operation runs; an outcome tells whether an     *)
(* exception left the operation and which calls or conversions failed in it   *)

StoreCalls == {"getItem", "setItem(keys)", "setItem(entry)", "removeItem"}
\* one call failing, both writes failing (quota exceeded), or the store gone
Faults ==
    {{}} \cup {{f} : f \in StoreCalls} \cup {{"setItem(keys)", "setItem(entry)"}, StoreCalls}

\* this.keys after JSON.parse gave something that is not an array, such as a
\* stored item: it has no indexOf, push, filter or forEach
NonList == <<"<object>">>

Done(ks, st, failed) ==
    [keys |-> ks, store |-> st, hit |-> FALSE, value |-> <<>>,
     thrown |-> FALSE, failed |-> failed]
Thrown(ks, st, failed) ==
    [keys |-> ks, store |-> st, hit |-> FALSE, value |-> <<>>,
     thrown |-> TRUE, failed |-> failed]

\* a try block whose exception leaves the method
uncaught(r) == r

\* try { ... } catch (e) { console.warn(...) }: the method returns; what a
\* thrown outcome carries is get's null
caught(r) == [r EXCEPT !.thrown = FALSE]

\* _saveKeys: this.keys is assigned only after the write went through
saveKeysUnder(c, ks, F) ==
    caught(IF "setItem(keys)" \in F
           THEN Thrown(c.keys, c.store, {"setItem(keys)"})
           ELSE Done(ks, setItem(c.store, IndexName, KeysDoc(ks)), {}))

\* _promoteKey has no try of its own; splice and push work on this.keys itself
promoteUnder(c, key, F) ==
    IF c.keys = NonList THEN Thrown(c.keys, c.store, {"keys"})
    ELSE IF key \in Range(c.keys)
    THEN LET moved == Append(RemoveFirst(c.keys, key), key)
         IN saveKeysUnder([keys |-> moved, store |-> c.store], moved, F)
    ELSE Done(c.keys, c.store, {})

removeUnder(c, key, F) ==
    caught(IF "removeItem" \in F THEN Thrown(c.keys, c.store, {"removeItem"})
           ELSE LET st == removeItem(c.store, fullKey(key))
                IN IF c.keys = NonList THEN Thrown(c.keys, st, {"keys"})
                   ELSE saveKeysUnder([keys |-> c.keys, store |-> st],
                                      FilterOut(c.keys, key), F))

\* a parse failure that deletes the entry it could not read
parseFailedRemoving(c, key) ==
    Thrown(FilterOut(c.keys, key), removeItem(c.store, fullKey(key)), {"JSON.parse"})

\* JSON.parse(itemStr) throws: nothing was changed before it
parseFailed(c, key) == Thrown(c.keys, c.store, {"JSON.parse"})

getUnder(c, key, t, age, F) ==
    caught(IF "getItem" \in F THEN Thrown(c.keys, c.store, {"getItem"})
           ELSE LET doc == getItem(c.store, fullKey(key))
                IN CASE doc.kind = "null" -> Done(c.keys, c.store, {})
                     [] doc.kind = "corrupt" -> parseFailed(c, key)
                     [] doc.kind = "item" /\ t - doc.timestamp > age ->
                          removeUnder(c, key, F)
                     [] OTHER ->
                          LET after == promoteUnder(c, key, F)
                          IN IF after.thrown THEN after
                             ELSE [after EXCEPT !.hit = (doc.kind = "item"),
                                                !.value = doc.value])

setUnder(c, key, value, t, cap, F) ==
    caught(IF c.keys = NonList THEN Thrown(c.keys, c.store, {"keys"})
           ELSE LET pushed == Append(RemoveFirst(c.keys, key), key)
                IN IF Len(pushed) > cap /\ "removeItem" \in F
                   THEN \* the first shift happened, its removeItem threw
                        Thrown(Tail(pushed), c.store, {"removeItem"})
                   ELSE LET kept == evict([keys |-> pushed, store |-> c.store], cap)
                            saved == saveKeysUnder(kept, kept.keys, F)
                        IN IF "setItem(entry)" \in F
                           THEN Thrown(saved.keys, saved.store,
                                       saved.failed \cup {"setItem(entry)"})
                           ELSE Done(saved.keys,
                                     setItem(saved.store, fullKey(key), ItemDoc(value, t)),
                                     saved.failed))

clearUnder(c, F) ==
    caught(IF c.keys = NonList THEN Thrown(c.keys, c.store, {"keys"})
           ELSE IF "removeItem" \in F THEN Thrown(c.keys, c.store, {"removeItem"})
           ELSE Done(<<>>, removeItem(removeAll(c.store, c.keys), IndexName), {}))

\* _loadKeys: keys ? JSON.parse(keys) : [], and [] from the catch block
loadKeysUnder(st, F) ==
    caught(IF "getItem" \in F THEN Thrown(<<>>, st, {"getItem"})
           ELSE LET doc == getItem(st, IndexName)
                IN CASE doc.kind = "null" -> Done(<<>>, st, {})
                     [] doc.kind = "corrupt" -> Thrown(<<>>, st, {"JSON.parse"})
                     [] doc.kind = "keys" -> Done(doc.list, st, {})
                     [] OTHER -> Done(NonList, st, {}))

-----------------------------------------------------------------------------
(* YouTubeClient.search: arguments, upstream pages and the pure steps *)

\* a query is a string, or one of the two non-values a caller can pass
Null == "<null>"
Undefined == "<undefined>"
Queries == {"cats", "", Null, Undefined}
Limits == 0..MaxLimit
SearchTypes == {"video", "channel", "playlist", "all"}
Args == [query : Queries, limit : Limits, type : SearchTypes]

\* a falsy continuation token: null, undefined or the empty string
NoToken == "<none>"
Tokens == {"tokA", "tokB"}

SeqsUpTo(S, n) == UNION {[1..k -> S] : k \in 0..n}
\* a parsed page { results, continuationToken }
Pages == [results : SeqsUpTo(Records, MaxPageLen), token : Tokens \cup {NoToken}]
\* the pages of runs with the cache on, where every page multiplies with the
\* states of the cache: two records of different type, one token
CachedRunPages ==
    [results : SeqsUpTo({Record("a", "video"), Record("b", "channel")}, MaxPageLen),
     token : {"tokA", NoToken}]
NoPage == [results |-> <<>>, token |-> NoToken]

maxAttempts == 5
DefaultCapacity == 20

\* a test for null and undefined that lets the empty string through
queryMissingLoose(query) == query \in {Null, Undefined}

\* if (!query)
queryMissing(query) == query \in {"", Null, Undefined}

\* a key that leaves the limit out
cacheKeyNoLimit(query, limit, type) == query \o "_" \o type

\* a key whose parts run into each other
cacheKeyNoSeparator(query, limit, type) == query \o ToString(limit) \o type

cacheKey(query, limit, type) == query \o "_" \o ToString(limit) \o "_" \o type

\* results.filter((item) => item.type === type), skipped for 'all'
RECURSIVE SelectType(_, _)
SelectType(results, type) ==
    IF results = <<>> THEN <<>>
    ELSE IF Head(results).type = type
         THEN <<Head(results)>> \o SelectType(Tail(results), type)
         ELSE SelectType(Tail(results), type)

\* no type filter at all
filterTypeNone(results, type) == results

filterType(results, type) ==
    IF type # "all" THEN SelectType(results, type) ELSE results

\* nextResults.filter(r => !existingIds.has(r.id))
RECURSIVE dedup(_, _)
dedup(combined, nextResults) ==
    IF nextResults = <<>> THEN <<>>
    ELSE IF Head(nextResults).id \in {r.id : r \in Range(combined)}
         THEN dedup(combined, Tail(nextResults))
         ELSE <<Head(nextResults)>> \o dedup(combined, Tail(nextResults))

\* no truncation
sliceNone(results, limit) == results

\* combinedResults.slice(0, limit)
slice(results, limit) ==
    IF limit >= 0
    THEN SubSeq(results, 1, IF limit < Len(results) THEN limit ELSE Len(results))
    ELSE SubSeq(results, 1, IF Len(results) + limit > 0 THEN Len(results) + limit ELSE 0)

\* the loop test that goes on however many records there are
loopIgnoresLimit(combined, limit, token, attempt) ==
    token # NoToken /\ attempt < maxAttempts

\* the loop test that goes on without a token
loopIgnoresToken(combined, limit, token, attempt) ==
    Len(combined) < limit /\ attempt < maxAttempts

\* the loop test without the attempt ceiling
loopNoCeiling(combined, limit, token, attempt) ==
    Len(combined) < limit /\ token # NoToken

\* while (combinedResults.length < limit && continuationToken && attempt < maxAttempts)
loopCondition(combined, limit, token, attempt) ==
    Len(combined) < limit /\ token # NoToken /\ attempt < maxAttempts

initialBody(query) == [kind |-> "initial", query |-> query, continuation |-> NoToken]
\* a continuation body that repeats the first token seen
continuationBodyStale(token) ==
    [kind |-> "continuation", query |-> "", continuation |-> "tokA"]
continuationBody(token) == [kind |-> "continuation", query |-> "", continuation |-> token]
NoBody == [kind |-> "none", query |-> "", continuation |-> NoToken]

CallIds == {"s1"}
IdleCall ==
    [pc |-> "idle", query |-> "", limit |-> 0, type |-> "video",
     combinedResults |-> <<>>, continuationToken |-> NoToken, attempt |-> 0,
     body |-> NoBody, requests |-> 0, parsed |-> 0, gets |-> 0, sets |-> 0,
     result |-> <<>>, fromCache |-> FALSE, error |-> "",
     seenIds |-> {}, firstLen |-> 0, repeated |-> {}, lastToken |-> NoToken,
     priorKnown |-> FALSE, priorResult |-> <<>>]

-----------------------------------------------------------------------------
(* parser.js: text nodes, items, sections and responses as the parser reads   *)
(* them, and getText, the renderer parsers and parseSearchResults             *)

\* a value that may be missing: undefined, an array, or an object that is
\* neither (truthy, not iterable, without array methods)
Absent == [kind |-> "absent", list |-> <<>>]
ListOf(s) == [kind |-> "list", list |-> s]
NotAList == [kind |-> "object", list |-> <<>>]

\* a text node: undefined/null, a string, or an object with an optional
\* simpleText and an optional runs array; a run is given by its text, by
\* Undefined when it has no text field, by Null when the run itself is null
TextAbsent ==
    [kind |-> "absent", text |-> "", simpleText |-> Undefined, hasRuns |-> FALSE,
     runs |-> <<>>]
TextString(s) ==
    [kind |-> "string", text |-> s, simpleText |-> Undefined, hasRuns |-> FALSE,
     runs |-> <<>>]
TextObject(simple, hasRuns, runs) ==
    [kind |-> "object", text |-> "", simpleText |-> simple, hasRuns |-> hasRuns,
     runs |-> runs]

Returns(v) == [value |-> v, thrown |-> FALSE]
Throws == [value |-> "", thrown |-> TRUE]

\* runs joined with a blank between them
RECURSIVE joinRunsSpaced(_)
joinRunsSpaced(runs) ==
    IF runs = <<>> THEN ""
    ELSE (IF Head(runs) = Undefined THEN "" ELSE Head(runs))
         \o (IF Len(runs) > 1 THEN " " ELSE "") \o joinRunsSpaced(Tail(runs))

\* runs.map((r) => r.text).join(''): join renders undefined as ''
RECURSIVE joinRuns(_)
joinRuns(runs) ==
    IF runs = <<>> THEN ""
    ELSE (IF Head(runs) = Undefined THEN "" ELSE Head(runs)) \o joinRuns(Tail(runs))

getText(data) ==
    IF data.kind = "absent" THEN Returns("")
    ELSE IF data.kind = "string" THEN Returns(data.text)
    ELSE IF data.simpleText \notin {Undefined, ""} THEN Returns(data.simpleText)
    ELSE IF data.hasRuns
    THEN IF Null \in Range(data.runs) THEN Throws ELSE Returns(joinRuns(data.runs))
    ELSE Returns("")

RendererKeys == {"videoRenderer", "channelRenderer", "playlistRenderer"}
SectionKeys == RendererKeys \cup {"itemSectionRenderer", "continuationItemRenderer"}

\* a node of a section list or of an item list: its keys, and under them the
\* id and title of a renderer, the contents of an item section, the token of
\* a continuation marker
Node(has, id, title, contents, token) ==
    [isNull |-> FALSE, has |-> has, id |-> id, title |-> title,
     contents |-> contents, token |-> token]
NullNode == [Node({}, Undefined, TextAbsent, Absent, NoToken) EXCEPT !.isNull = TRUE]

NoRecord == [none |-> TRUE, record |-> Record(Undefined, "video"), thrown |-> FALSE]
Parsed(id, type) == [none |-> FALSE, record |-> Record(id, type), thrown |-> FALSE]
ParseThrew == [NoRecord EXCEPT !.thrown = TRUE]

\* the three renderer parsers: null without their key, else a record whose
\* text fields come from getText
parseVideoRenderer(item) ==
    IF "videoRenderer" \notin item.has THEN NoRecord
    ELSE IF getText(item.title).thrown THEN ParseThrew
    ELSE Parsed(item.id, "video")

parseChannelRenderer(item) ==
    IF "channelRenderer" \notin item.has THEN NoRecord
    ELSE IF getText(item.title).thrown THEN ParseThrew
    ELSE Parsed(item.id, "channel")

parsePlaylistRenderer(item) ==
    IF "playlistRenderer" \notin item.has THEN NoRecord
    ELSE IF getText(item.title).thrown THEN ParseThrew
    ELSE Parsed(item.id, "playlist")

\* an item loop body that gives up on an item it does not know
parseItemStrict(item) ==
    IF item.isNull THEN ParseThrew
    ELSE IF "videoRenderer" \in item.has THEN parseVideoRenderer(item)
    ELSE IF "channelRenderer" \in item.has THEN parseChannelRenderer(item)
    ELSE IF "playlistRenderer" \in item.has THEN parsePlaylistRenderer(item)
    ELSE ParseThrew

\* the body of for (const item of items): reading a key of null throws
parseItem(item) ==
    IF item.isNull THEN ParseThrew
    ELSE IF "videoRenderer" \in item.has THEN parseVideoRenderer(item)
    ELSE IF "channelRenderer" \in item.has THEN parseChannelRenderer(item)
    ELSE IF "playlistRenderer" \in item.has THEN parsePlaylistRenderer(item)
    ELSE NoRecord

\* results.push(parsedItem) over items, until one throws
RECURSIVE parseItems(_, _)
parseItems(items, results) ==
    IF items = <<>> THEN [results |-> results, thrown |-> FALSE]
    ELSE LET parsedItem == parseItem(Head(items))
         IN IF parsedItem.thrown THEN [results |-> results, thrown |-> TRUE]
            ELSE parseItems(Tail(items),
                            IF parsedItem.none THEN results
                            ELSE Append(results, parsedItem.record))

\* items that come from item sections only
itemsOfWrapped(section) ==
    IF "itemSectionRenderer" \in section.has THEN section.contents ELSE ListOf(<<>>)

\* let items = []; the contents of an item section, or the section itself
itemsOf(section) ==
    IF "itemSectionRenderer" \in section.has THEN section.contents
    ELSE IF section.has \cap RendererKeys # {} THEN ListOf(<<section>>)
    ELSE ListOf(<<>>)

\* for (const section of contents): st is [results, token, thrown]
RECURSIVE parseSections(_, _)
parseSections(sections, st) ==
    IF sections = <<>> THEN st
    ELSE LET section == Head(sections)
             items == itemsOf(section)
             after == parseItems(items.list, st.results)
         IN IF section.isNull \/ items.kind # "list"
            THEN [st EXCEPT !.thrown = TRUE]
            ELSE IF after.thrown
            THEN [st EXCEPT !.results = after.results, !.thrown = TRUE]
            ELSE parseSections(Tail(sections),
                     [results |-> after.results,
                      token |-> IF "continuationItemRenderer" \in section.has
                                THEN section.token ELSE st.token,
                      thrown |-> FALSE])

\* a response: null, undefined, or an object with a value at the path
\* contents.twoColumnSearchResultsRenderer...sectionListRenderer.contents and
\* a value under onResponseReceivedCommands; {} and { contents: {} } both
\* have neither. A command carries appendContinuationItemsAction or not
Response(contents, commands) ==
    [kind |-> "object", contents |-> contents, commands |-> commands]
NullResponse == [kind |-> "null", contents |-> Absent, commands |-> Absent]
UndefinedResponse == [kind |-> "undefined", contents |-> Absent, commands |-> Absent]
Command(action, continuationItems) ==
    [isNull |-> FALSE, action |-> action, continuationItems |-> continuationItems]
NullCommand == [isNull |-> TRUE, action |-> FALSE, continuationItems |-> Absent]

\* onResponseReceivedCommands.find(cmd => cmd.appendContinuationItemsAction)
RECURSIVE find(_)
find(commands) ==
    IF commands = <<>> THEN [found |-> FALSE, cmd |-> NullCommand, thrown |-> FALSE]
    ELSE IF Head(commands).isNull
    THEN [found |-> FALSE, cmd |-> NullCommand, thrown |-> TRUE]
    ELSE IF Head(commands).action
    THEN [found |-> TRUE, cmd |-> Head(commands), thrown |-> FALSE]
    ELSE find(Tail(commands))

\* lines 114-124: the section list, [contents, thrown]
locate(response) ==
    IF response.kind # "object" THEN [contents |-> Absent, thrown |-> TRUE]
    ELSE IF response.contents.kind # "absent" \/ response.commands.kind = "absent"
    THEN [contents |-> response.contents, thrown |-> FALSE]
    ELSE IF response.commands.kind # "list" THEN [contents |-> Absent, thrown |-> TRUE]
    ELSE LET action == find(response.commands.list)
         IN IF action.thrown THEN [contents |-> Absent, thrown |-> TRUE]
            ELSE IF action.found
            THEN [contents |-> action.cmd.continuationItems, thrown |-> FALSE]
            ELSE [contents |-> Absent, thrown |-> FALSE]

PageResult(results, token) ==
    [kind |-> "object", results |-> results, continuationToken |-> token]

\* the try block, [results, token, thrown]
traverse(response) ==
    LET start == [results |-> <<>>, token |-> NoToken, thrown |-> FALSE]
        located == locate(response)
    IN IF located.thrown THEN [start EXCEPT !.thrown = TRUE]
       ELSE IF located.contents.kind = "absent" THEN start
       ELSE IF located.contents.kind # "list" THEN [start EXCEPT !.thrown = TRUE]
       ELSE parseSections(located.contents.list, start)

\* catch (e) { console.error(...) } and return { results, continuationToken }
catchAndReturn(st) == PageResult(st.results, st.token)

parseSearchResults(response) == catchAndReturn(traverse(response))

-----------------------------------------------------------------------------
(* The cache driven directly: set / get / remove / clear on one instance *)

CacheKeys == {"k1", "k2", "k3"}
CacheValues == {<<>>, <<[id |-> "a", type |-> "video"]>>}

Cache == [keys |-> keys, store |-> store]
NoOp == [name |-> "none", key |-> "", hit |-> FALSE, value |-> <<>>,
         ts |-> -1]
StoredTs(key) ==
    IF getItem(store, fullKey(key)).kind = "item"
    THEN getItem(store, fullKey(key)).timestamp ELSE -1

InitCache ==
    /\ now = 0
    /\ maxAge \in 1..MaxAgeBound
    /\ capacity \in 1..MaxCapacity
    /\ useCache = TRUE
    /\ keys = <<>>
    /\ store = EmptyStore
    /\ lastOp = NoOp
    /\ phase = "inserting"
    /\ inserted = <<>>
    /\ pool = {}
    /\ call = [c \in CallIds |-> IdleCall]
    /\ fetched = EmptyStore
    /\ cleared = "no"
    /\ used = <<>>
    /\ input = NoInput
    /\ output = NotApplied

CacheSet(key, value) ==
    LET after == set(Cache, key, value, now, capacity)
    IN /\ keys' = after.keys
       /\ store' = after.store
       /\ lastOp' = [name |-> "set", key |-> key, hit |-> FALSE, value |-> <<>>,
                     ts |-> StoredTs(key)]
       /\ IF phase = "inserting" /\ key \notin Range(inserted)
          THEN phase' = phase /\ inserted' = Append(inserted, key)
          ELSE phase' = "other" /\ inserted' = <<>>
       /\ UNCHANGED <<now, maxAge, capacity, useCache, cleared, used, fnVars, clientVars>>

CacheGet(key) ==
    LET after == get(Cache, key, now, maxAge)
        stale == StoredTs(key) >= 0 /\ ~after.hit
    IN /\ keys' = after.keys
       /\ store' = after.store
       /\ lastOp' = [name |-> "get", key |-> key, hit |-> after.hit,
                     value |-> after.value, ts |-> StoredTs(key)]
       /\ IF phase = "other" \/ stale
          THEN phase' = "other" /\ inserted' = <<>>
          ELSE phase' = "reading" /\ inserted' = inserted
       /\ UNCHANGED <<now, maxAge, capacity, useCache, cleared, used, fnVars, clientVars>>

CacheRemove(key) ==
    LET after == remove(Cache, key)
    IN /\ keys' = after.keys
       /\ store' = after.store
       /\ lastOp' = [name |-> "remove", key |-> key, hit |-> FALSE, value |-> <<>>,
                     ts |-> StoredTs(key)]
       /\ phase' = "other"
       /\ inserted' = <<>>
       /\ UNCHANGED <<now, maxAge, capacity, useCache, cleared, used, fnVars, clientVars>>

CacheClear ==
    LET after == clear(Cache)
    IN /\ keys' = after.keys
       /\ store' = after.store
       /\ lastOp' = [NoOp EXCEPT !.name = "clear"]
       /\ phase' = "other"
       /\ inserted' = <<>>
       /\ UNCHANGED <<now, maxAge, capacity, useCache, cleared, used, fnVars, clientVars>>

Tick ==
    /\ now < MaxTime
    /\ now' = now + 1
    /\ lastOp' = NoOp
    /\ UNCHANGED <<maxAge, capacity, useCache, cleared, used, fnVars, keys, store, phase, inserted, clientVars>>

NextCache ==
    \/ \E key \in CacheKeys, value \in CacheValues : CacheSet(key, value)
    \/ \E key \in CacheKeys : CacheGet(key)
    \/ \E key \in CacheKeys : CacheRemove(key)
    \/ CacheClear
    \/ Tick

SpecCache == InitCache /\ [][NextCache]_vars

\* new LRUCache('test_', -1, 10)
NegativeAge == -1

\* the same operations on a cache built with any capacity from 0 and any max
\* age from negative to positive
InitEdge ==
    /\ now = 0
    /\ maxAge \in NegativeAge..MaxAgeBound
    /\ capacity \in 0..MaxCapacity
    /\ useCache = TRUE
    /\ keys = <<>>
    /\ store = EmptyStore
    /\ lastOp = NoOp
    /\ phase = "inserting"
    /\ inserted = <<>>
    /\ pool = {}
    /\ call = [c \in CallIds |-> IdleCall]
    /\ fetched = EmptyStore
    /\ cleared = "no"
    /\ used = <<>>
    /\ input = NoInput
    /\ output = NotApplied

SpecEdge == InitEdge /\ [][NextCache]_vars

-----------------------------------------------------------------------------
(* YouTubeClient: search calls, suspended only while awaiting the transport *)

ValidArgs == {a \in Args : ~queryMissing(a.query)}
\* with the cache on a run searches for PoolSize combinations of small limit
CachedRunArgs == {a \in ValidArgs : a.limit <= MaxCachedLimit}
PagesFor == IF useCache THEN CachedRunPages ELSE Pages
Awaiting(c) == call[c].pc \in {"awaitInitial", "awaitContinuation"}

\* fetched maps <<query, limit, type>> to what a fetched search returned and
\* when it stored it; an entry whose stored item left the store is forgotten
Following(f, st) ==
    [a \in {x \in DOMAIN f : fullKey(cacheKey(x[1], x[2], x[3])) \in DOMAIN st} |-> f[a]]
Remember(f, a, result, t) ==
    [x \in DOMAIN f \cup {a} |-> IF x = a THEN [result |-> result, at |-> t] ELSE f[x]]

Init ==
    /\ now = 0
    /\ maxAge \in 1..MaxAgeBound
    /\ capacity = DefaultCapacity
    /\ useCache \in BOOLEAN
    /\ keys = <<>>
    /\ store = EmptyStore
    /\ lastOp = NoOp
    /\ phase = "inserting"
    /\ inserted = <<>>
    /\ pool \in IF useCache
                THEN {P \in SUBSET CachedRunArgs : Cardinality(P) = PoolSize}
                ELSE {ValidArgs}
    /\ call = [c \in CallIds |-> IdleCall]
    /\ fetched = EmptyStore
    /\ cleared = "no"
    /\ used = <<>>
    /\ input = NoInput
    /\ output = NotApplied

\* a cache check that takes an empty result for a miss
cachedNonEmpty(read) == read.hit /\ read.value # <<>>

\* if (cached): what get returned is an array, truthy even when empty, or null
cachedFound(read) == read.hit

\* search(query, { limit, type }) up to its first await, return or throw;
\* read is what this.cache.get(cacheKey) returned and left behind
StartCall(c, a, read) ==
    LET triple == <<a.query, a.limit, a.type>>
        \* whether a fetched search of this combination stored a result that
        \* is still in the store and not older than maxAge
        known == useCache /\ triple \in DOMAIN fetched /\ now - fetched[triple].at <= maxAge
        fresh == [IdleCall EXCEPT !.query = a.query, !.limit = a.limit, !.type = a.type,
                                  !.priorKnown = known,
                                  !.priorResult = IF known THEN fetched[triple].result
                                                  ELSE <<>>]
    IN /\ ~Awaiting(c)
       /\ queryMissing(a.query) \/ a \in pool
       /\ IF queryMissing(a.query)
          THEN \* thrown before limit and type are read
               /\ call' = [call EXCEPT ![c] =
                     [IdleCall EXCEPT !.query = a.query, !.pc = "thrown",
                                      !.error = "Query is required"]]
               /\ UNCHANGED <<keys, store, fetched>>
          ELSE IF useCache
          THEN /\ keys' = read.keys
               /\ store' = read.store
               /\ fetched' = Following(fetched, read.store)
               /\ call' = [call EXCEPT ![c] =
                     IF cachedFound(read)
                     THEN [fresh EXCEPT !.pc = "returned", !.gets = 1,
                                        !.result = read.value, !.fromCache = TRUE]
                     ELSE [fresh EXCEPT !.pc = "awaitInitial", !.gets = 1,
                                        !.body = initialBody(a.query), !.requests = 1]]
          ELSE /\ call' = [call EXCEPT ![c] =
                     [fresh EXCEPT !.pc = "awaitInitial",
                                   !.body = initialBody(a.query), !.requests = 1]]
               /\ UNCHANGED <<keys, store, fetched>>

SearchStart(c, a) ==
    /\ StartCall(c, a, get(Cache, cacheKey(a.query, a.limit, a.type), now, maxAge))
    /\ UNCHANGED <<now, maxAge, capacity, useCache, cleared, used, fnVars, cacheVars, pool>>

\* from the loop test on: either the next continuation request, or the
\* truncation, the cache write and the return; after is what
\* this.cache.set(cacheKey, finalResults) left behind
ProceedWith(c, st, after) ==
    IF loopCondition(st.combinedResults, st.limit, st.continuationToken, st.attempt)
    THEN /\ call' = [call EXCEPT ![c] =
               [st EXCEPT !.pc = "awaitContinuation", !.attempt = @ + 1,
                          !.body = continuationBody(st.continuationToken),
                          !.requests = @ + 1]]
         /\ UNCHANGED <<keys, store, fetched>>
    ELSE LET finalResults == slice(st.combinedResults, st.limit)
         IN /\ call' = [call EXCEPT ![c] =
                  [st EXCEPT !.pc = "returned", !.body = NoBody,
                             !.result = finalResults,
                             !.sets = IF useCache THEN 1 ELSE 0]]
            /\ IF useCache
               THEN /\ keys' = after.keys
                    /\ store' = after.store
                    /\ fetched' = Remember(Following(fetched, after.store),
                                         <<st.query, st.limit, st.type>>, finalResults, now)
               ELSE UNCHANGED <<keys, store, fetched>>

Proceed(c, st) ==
    ProceedWith(c, st, set(Cache, cacheKey(st.query, st.limit, st.type),
                           slice(st.combinedResults, st.limit), now, capacity))

\* the locals of a call once the initial response is parsed and filtered
initialParsed(st, page) ==
    [st EXCEPT !.combinedResults = filterType(page.results, st.type),
               !.continuationToken = page.token,
               !.parsed = @ + 1,
               !.lastToken = page.token,
               !.seenIds = {r.id : r \in Range(page.results)},
               !.firstLen = Len(page.results)]

\* the locals of a call once a continuation response is parsed, filtered,
\* stripped of known ids and appended
continuationParsed(st, page) ==
    LET nextResults == dedup(st.combinedResults, filterType(page.results, st.type))
        again == {r.id : r \in Range(st.combinedResults)}
                     \cap {r.id : r \in Range(filterType(page.results, st.type))}
    IN [st EXCEPT !.combinedResults = st.combinedResults \o nextResults,
                  !.continuationToken = page.token,
                  !.parsed = @ + 1,
                  !.lastToken = page.token,
                  !.seenIds = @ \cup {r.id : r \in Range(page.results)},
                  !.repeated = @ \cup again]

\* the initial response arrives: parse, filter by type, enter the loop
ReceiveInitial(c, page) ==
    /\ call[c].pc = "awaitInitial"
    /\ Proceed(c, initialParsed(call[c], page))
    /\ UNCHANGED <<now, maxAge, capacity, useCache, cleared, used, fnVars, cacheVars, pool>>

\* a continuation response arrives: parse, filter, drop known ids, append
ReceiveContinuation(c, page) ==
    /\ call[c].pc = "awaitContinuation"
    /\ Proceed(c, continuationParsed(call[c], page))
    /\ UNCHANGED <<now, maxAge, capacity, useCache, cleared, used, fnVars, cacheVars, pool>>

\* transport.post rejects: search rethrows from its catch block
Rethrow(c) ==
    /\ Awaiting(c)
    /\ call' = [call EXCEPT ![c] =
           [@ EXCEPT !.pc = "thrown", !.body = NoBody, !.error = "Request failed"]]
    /\ UNCHANGED <<keys, store, fetched>>

\* a failure that leaves an empty result under the call's key on its way out
TransportFailsCachingEmpty(c) ==
    LET after == set(Cache, cacheKey(call[c].query, call[c].limit, call[c].type),
                     <<>>, now, capacity)
    IN /\ Awaiting(c)
       /\ call' = [call EXCEPT ![c] =
              [@ EXCEPT !.pc = "thrown", !.body = NoBody, !.error = "Request failed"]]
       /\ keys' = after.keys
       /\ store' = after.store
       /\ UNCHANGED <<now, maxAge, capacity, useCache, cleared, used, fnVars, cacheVars, pool, fetched>>

\* a failure of a continuation request answered with what was gathered so far
TransportFailsPartial(c) ==
    /\ Awaiting(c)
    /\ IF call[c].pc = "awaitContinuation"
       THEN ProceedWith(c, [call[c] EXCEPT !.continuationToken = NoToken],
                        set(Cache, cacheKey(call[c].query, call[c].limit, call[c].type),
                            slice(call[c].combinedResults, call[c].limit), now, capacity))
       ELSE Rethrow(c)
    /\ UNCHANGED <<now, maxAge, capacity, useCache, cleared, used, fnVars, cacheVars, pool>>

TransportFails(c) ==
    /\ Rethrow(c)
    /\ UNCHANGED <<now, maxAge, capacity, useCache, cleared, used, fnVars, cacheVars, pool>>

\* a clearCache that leaves the cache alone
ClearCallSkipped(after) == UNCHANGED <<keys, store, fetched>>

\* clearCache(): if (this.cache) this.cache.clear(); after is what clear left
ClearCall(after) ==
    IF useCache
    THEN /\ keys' = after.keys
         /\ store' = after.store
         /\ fetched' = Following(fetched, after.store)
    ELSE UNCHANGED <<keys, store, fetched>>

ClearCache ==
    /\ ClearCall(clear(Cache))
    /\ UNCHANGED <<now, maxAge, capacity, useCache, cleared, used, fnVars, cacheVars, pool, call>>

Next ==
    \/ \E c \in CallIds, a \in Args : SearchStart(c, a)
    \/ \E c \in CallIds, page \in PagesFor : ReceiveInitial(c, page)
    \/ \E c \in CallIds, page \in PagesFor : ReceiveContinuation(c, page)
    \/ \E c \in CallIds : TransportFails(c)
    \/ ClearCache
    \/ Tick

Spec == Init /\ [][Next]_vars

-----------------------------------------------------------------------------
(* search over one upstream: two videos and a channel on the first page, one *)
(* more video on the second, each page with or without a token              *)

ScenarioFirst ==
    [results |-> <<Record("v1", "video"), Record("v2", "video"), Record("c1", "channel")>>,
     token |-> "tokA"]
ScenarioLast == [results |-> <<Record("v3", "video")>>, token |-> NoToken]
ScenarioPages ==
    {ScenarioFirst, ScenarioLast,
     [ScenarioFirst EXCEPT !.token = NoToken], [ScenarioLast EXCEPT !.token = "tokB"]}
ScenarioArgs == [query : {"cats"}, limit : 0..MaxScenarioLimit, type : SearchTypes]

InitScenario ==
    /\ now = 0
    /\ maxAge \in 1..MaxAgeBound
    /\ capacity = DefaultCapacity
    /\ useCache \in BOOLEAN
    /\ keys = <<>>
    /\ store = EmptyStore
    /\ lastOp = NoOp
    /\ phase = "inserting"
    /\ inserted = <<>>
    /\ pool \in IF useCache THEN {{a} : a \in ScenarioArgs} ELSE {ScenarioArgs}
    /\ call = [c \in CallIds |-> IdleCall]
    /\ fetched = EmptyStore
    /\ cleared = "no"
    /\ used = <<>>
    /\ input = NoInput
    /\ output = NotApplied

NextScenario ==
    \/ \E c \in CallIds, a \in ScenarioArgs : SearchStart(c, a)
    \/ \E c \in CallIds, page \in ScenarioPages : ReceiveInitial(c, page)
    \/ \E c \in CallIds, page \in ScenarioPages : ReceiveContinuation(c, page)
    \/ \E c \in CallIds : TransportFails(c)
    \/ ClearCache
    \/ Tick

SpecScenario == InitScenario /\ [][NextScenario]_vars

-----------------------------------------------------------------------------
(* One client and its cache over a store that can fail, be written to from   *)
(* outside, and be read back by a new LRUCache                                *)

FaultKeys == {"k1", "k2"}
FaultValues == {<<Record("b", "video")>>}
FaultArgs == {[query |-> "cats", limit |-> 1, type |-> "all"]}
FaultPages ==
    {[results |-> <<Record("a", "video")>>, token |-> NoToken],
     [results |-> <<>>, token |-> "tokA"]}
\* the names an outside writer can leave text under
TamperedNames == {fullKey(k) : k \in FaultKeys} \cup {IndexName}
\* text that is not JSON, or for the index JSON that is not a list
TamperedDocs(name) ==
    IF name = IndexName THEN {CorruptDoc, ItemDoc(<<>>, 0)} ELSE {CorruptDoc}

NoFault == [name |-> "none", key |-> "", hit |-> FALSE, value |-> <<>>,
            ts |-> -1, thrown |-> FALSE, failed |-> {}]
Observed(name, key, r) ==
    [name |-> name, key |-> key, hit |-> r.hit, value |-> r.value,
     ts |-> StoredTs(key), thrown |-> r.thrown, failed |-> r.failed]

InitFaults ==
    /\ now = 0
    /\ maxAge \in {NegativeAge, MaxAgeBound}
    /\ capacity \in 1..MaxCapacity
    /\ useCache = TRUE
    /\ keys = <<>>
    /\ store = EmptyStore
    /\ lastOp = NoFault
    /\ phase = "other"
    /\ inserted = <<>>
    /\ pool = FaultArgs
    /\ call = [c \in CallIds |-> IdleCall]
    /\ fetched = EmptyStore
    /\ cleared = "no"
    /\ used = <<>>
    /\ input = NoInput
    /\ output = NotApplied

\* the cache is driven directly until its client runs its first search
NoSearchYet == \A c \in CallIds : call[c].pc = "idle"

FaultySet(key, value, F) ==
    LET r == setUnder(Cache, key, value, now, capacity, F)
    IN /\ NoSearchYet
       /\ keys' = r.keys
       /\ store' = r.store
       /\ lastOp' = Observed("set", key, r)
       /\ UNCHANGED <<now, maxAge, capacity, useCache, cleared, used, fnVars, phase, inserted, clientVars>>

FaultyGet(key, F) ==
    LET r == getUnder(Cache, key, now, maxAge, F)
    IN /\ NoSearchYet
       /\ keys' = r.keys
       /\ store' = r.store
       /\ lastOp' = Observed("get", key, r)
       /\ UNCHANGED <<now, maxAge, capacity, useCache, cleared, used, fnVars, phase, inserted, clientVars>>

FaultyRemove(key, F) ==
    LET r == removeUnder(Cache, key, F)
    IN /\ NoSearchYet
       /\ keys' = r.keys
       /\ store' = r.store
       /\ lastOp' = Observed("remove", key, r)
       /\ UNCHANGED <<now, maxAge, capacity, useCache, cleared, used, fnVars, phase, inserted, clientVars>>

FaultyClear(F) ==
    LET r == clearUnder(Cache, F)
    IN /\ NoSearchYet
       /\ keys' = r.keys
       /\ store' = r.store
       /\ lastOp' = Observed("clear", "", r)
       /\ UNCHANGED <<now, maxAge, capacity, useCache, cleared, used, fnVars, phase, inserted, clientVars>>

\* new LRUCache(...) over the store as it is
Construct(F) ==
    LET r == loadKeysUnder(store, F)
    IN /\ NoSearchYet
       /\ keys' = r.keys
       /\ lastOp' = Observed("construct", "", r)
       /\ UNCHANGED <<now, maxAge, capacity, useCache, cleared, used, fnVars, store, phase, inserted,
                      clientVars>>

\* localStorage.setItem from outside the cache
Tamper(name, doc) ==
    /\ store' = setItem(store, name, doc)
    /\ lastOp' = NoFault
    /\ UNCHANGED <<now, maxAge, capacity, useCache, cleared, used, fnVars, keys, phase, inserted,
                   clientVars>>

\* an exception out of this.cache.get or this.cache.set inside search's try
\* block is rethrown by its catch block
CacheThrew(c, a, r, error) ==
    /\ call' = [call EXCEPT ![c] =
           [IdleCall EXCEPT !.query = a.query, !.limit = a.limit, !.type = a.type,
                            !.pc = "thrown", !.error = error]]
    /\ keys' = r.keys
    /\ store' = r.store
    /\ fetched' = Following(fetched, r.store)

\* search over the failing store; what its cache calls showed is in the call
FaultySearchStart(c, a, F) ==
    LET r == getUnder(Cache, cacheKey(a.query, a.limit, a.type), now, maxAge, F)
    IN /\ IF r.thrown
          THEN ~Awaiting(c) /\ a \in pool /\ CacheThrew(c, a, r, "Cache get failed")
          ELSE StartCall(c, a, r)
       /\ lastOp' = NoFault
       /\ UNCHANGED <<now, maxAge, capacity, useCache, cleared, used, fnVars, phase, inserted, pool>>

FaultyProceed(c, st, F) ==
    LET r == setUnder(Cache, cacheKey(st.query, st.limit, st.type),
                      slice(st.combinedResults, st.limit), now, capacity, F)
    IN /\ IF r.thrown
             /\ ~loopCondition(st.combinedResults, st.limit, st.continuationToken,
                               st.attempt)
          THEN CacheThrew(c, st, r, "Cache set failed")
          ELSE ProceedWith(c, st, r)
       /\ lastOp' = NoFault
       /\ UNCHANGED <<now, maxAge, capacity, useCache, cleared, used, fnVars, phase, inserted, pool>>

FaultyReceiveInitial(c, page, F) ==
    /\ call[c].pc = "awaitInitial"
    /\ FaultyProceed(c, initialParsed(call[c], page), F)

FaultyReceiveContinuation(c, page, F) ==
    /\ call[c].pc = "awaitContinuation"
    /\ FaultyProceed(c, continuationParsed(call[c], page), F)

NextFaults ==
    \/ \E key \in FaultKeys, value \in FaultValues, F \in Faults : FaultySet(key, value, F)
    \/ \E key \in FaultKeys, F \in Faults : FaultyGet(key, F)
    \/ \E key \in FaultKeys, F \in Faults : FaultyRemove(key, F)
    \/ \E F \in Faults : FaultyClear(F)
    \/ \E F \in Faults : Construct(F)
    \/ \E name \in TamperedNames : \E doc \in TamperedDocs(name) : Tamper(name, doc)
    \/ \E c \in CallIds, a \in FaultArgs, F \in Faults : FaultySearchStart(c, a, F)
    \/ \E c \in CallIds, page \in FaultPages, F \in Faults : FaultyReceiveInitial(c, page, F)
    \/ \E c \in CallIds, page \in FaultPages, F \in Faults :
           FaultyReceiveContinuation(c, page, F)
    \/ \E c \in CallIds : TransportFails(c)

SpecFaults == InitFaults /\ [][NextFaults]_vars

-----------------------------------------------------------------------------
(* Two search calls on one client: either can start, await and resume while *)
(* the other awaits, and clearCache can run between any two of their steps   *)

ConcurrentCalls == {"s1", "s2"}
ConcurrentArgs ==
    {[query |-> "cats", limit |-> 1, type |-> "video"],
     [query |-> "cats", limit |-> 1, type |-> "all"]}
ConcurrentPages ==
    {[results |-> <<Record("a", "video")>>, token |-> NoToken],
     [results |-> <<>>, token |-> "tokA"]}

InitConcurrent ==
    /\ now = 0
    /\ maxAge \in 1..MaxAgeBound
    /\ capacity = DefaultCapacity
    /\ useCache \in BOOLEAN
    /\ keys = <<>>
    /\ store = EmptyStore
    /\ lastOp = NoOp
    /\ phase = "inserting"
    /\ inserted = <<>>
    /\ pool = ConcurrentArgs
    /\ call = [c \in ConcurrentCalls |-> IdleCall]
    /\ fetched = EmptyStore
    /\ cleared = "no"
    /\ used = <<>>
    /\ input = NoInput
    /\ output = NotApplied

ConcurrentStart(c, a) ==
    /\ StartCall(c, a, get(Cache, cacheKey(a.query, a.limit, a.type), now, maxAge))
    /\ cleared' = "no"
    /\ UNCHANGED <<used, fnVars>>
    /\ UNCHANGED <<now, maxAge, capacity, useCache, cacheVars, pool>>

\* a resumed call that returns has called this.cache.set on a caching client
ConcurrentResume(c, st) ==
    /\ Proceed(c, st)
    /\ cleared' = IF cleared = "yes" /\ useCache /\ call'[c].pc = "returned"
                  THEN "refilled" ELSE cleared
    /\ UNCHANGED <<used, fnVars>>
    /\ UNCHANGED <<now, maxAge, capacity, useCache, cacheVars, pool>>

ConcurrentReceiveInitial(c, page) ==
    /\ call[c].pc = "awaitInitial"
    /\ ConcurrentResume(c, initialParsed(call[c], page))

ConcurrentReceiveContinuation(c, page) ==
    /\ call[c].pc = "awaitContinuation"
    /\ ConcurrentResume(c, continuationParsed(call[c], page))

ConcurrentClearCache ==
    /\ ClearCall(clear(Cache))
    /\ cleared' = "yes"
    /\ UNCHANGED <<used, fnVars>>
    /\ UNCHANGED <<now, maxAge, capacity, useCache, cacheVars, pool, call>>

NextConcurrent ==
    \/ \E c \in ConcurrentCalls, a \in ConcurrentArgs : ConcurrentStart(c, a)
    \/ \E c \in ConcurrentCalls, page \in ConcurrentPages : ConcurrentReceiveInitial(c, page)
    \/ \E c \in ConcurrentCalls, page \in ConcurrentPages :
           ConcurrentReceiveContinuation(c, page)
    \/ \E c \in ConcurrentCalls : TransportFails(c)
    \/ ConcurrentClearCache
    \/ Tick

SpecConcurrent == InitConcurrent /\ [][NextConcurrent]_vars

-----------------------------------------------------------------------------
(* cacheKey on its own: the keys of two (query, limit, type) combinations     *)

\* queries that hold the separator, digits and a type name themselves
KeyQueries == {"cats", "cats1", "cats_1", "cats_1_video"}
KeyArgs == [query : KeyQueries, limit : 0..MaxKeyLimit, type : SearchTypes]

InitKey ==
    /\ now = 0
    /\ maxAge = MaxAgeBound
    /\ capacity = DefaultCapacity
    /\ useCache = TRUE
    /\ keys = <<>>
    /\ store = EmptyStore
    /\ lastOp = NoOp
    /\ phase = "inserting"
    /\ inserted = <<>>
    /\ pool = {}
    /\ call = [c \in CallIds |-> IdleCall]
    /\ fetched = EmptyStore
    /\ cleared = "no"
    /\ used = <<>>
    /\ input \in [kind : {"cacheKey"}, first : KeyArgs, second : KeyArgs]
    /\ output = NotApplied

\* two searches compute their keys
DeriveKeys ==
    /\ output = NotApplied
    /\ output' = [kind |-> "keys",
                  first |-> cacheKey(input.first.query, input.first.limit, input.first.type),
                  second |-> cacheKey(input.second.query, input.second.limit,
                                      input.second.type)]
    /\ UNCHANGED <<now, maxAge, capacity, useCache, cleared, used, keys, store,
                   cacheVars, clientVars, input>>

NextKey == DeriveKeys

SpecKey == InitKey /\ [][NextKey]_vars

-----------------------------------------------------------------------------
(* getText on its own, over every text node of the shapes upstream sends and  *)
(* over run lists that hold a null                                           *)

TextStrings == {"", "x", "y"}
RunLists == SeqsUpTo(TextStrings \cup {Undefined, Null}, MaxRuns)
TextNodes ==
    {TextAbsent} \cup {TextString(s) : s \in TextStrings}
    \cup {TextObject(simple, FALSE, <<>>) : simple \in TextStrings \cup {Undefined}}
    \cup {TextObject(simple, TRUE, runs) :
              simple \in TextStrings \cup {Undefined}, runs \in RunLists}

InitText ==
    /\ now = 0
    /\ maxAge = MaxAgeBound
    /\ capacity = DefaultCapacity
    /\ useCache = TRUE
    /\ keys = <<>>
    /\ store = EmptyStore
    /\ lastOp = NoOp
    /\ phase = "inserting"
    /\ inserted = <<>>
    /\ pool = {}
    /\ call = [c \in CallIds |-> IdleCall]
    /\ fetched = EmptyStore
    /\ cleared = "no"
    /\ used = <<>>
    /\ input \in TextNodes
    /\ output = NotApplied

ExtractText ==
    /\ output = NotApplied
    /\ output' = [kind |-> "text", value |-> getText(input).value,
                  thrown |-> getText(input).thrown]
    /\ UNCHANGED <<now, maxAge, capacity, useCache, cleared, used, keys, store,
                   cacheVars, clientVars, input>>

NextText == ExtractText

SpecText == InitText /\ [][NextText]_vars

-----------------------------------------------------------------------------
(* parseSearchResults on its own, over responses of both shapes made of item  *)
(* sections, direct items, continuation markers and nodes of other shapes     *)

GoodTitle == TextObject("x", FALSE, <<>>)
BadTitle == TextObject(Undefined, TRUE, <<Null>>)
Item(has, id, title) == Node(has, id, title, Absent, NoToken)
VideoA == Item({"videoRenderer"}, "a", GoodTitle)
ChannelB == Item({"channelRenderer"}, "b", GoodTitle)
\* { playlistRenderer: {} }: no playlistId
PlaylistNoId == Item({"playlistRenderer"}, Undefined, TextAbsent)
VideoBadTitle == Item({"videoRenderer"}, "b", BadTitle)
VideoAndChannel == Item({"videoRenderer", "channelRenderer"}, "b", GoodTitle)
\* { unknownRenderer: { foo: 'bar' } }
UnknownItem == Item({"unknownRenderer"}, Undefined, TextAbsent)

ItemSection(contents) ==
    Node({"itemSectionRenderer"}, Undefined, TextAbsent, contents, NoToken)
Marker(token) == Node({"continuationItemRenderer"}, Undefined, TextAbsent, Absent, token)

ItemLists ==
    SeqsUpTo({VideoA, UnknownItem, NullNode}, MaxContents)
    \cup {<<x>> : x \in {ChannelB, PlaylistNoId, VideoBadTitle, VideoAndChannel}}
Sections ==
    {ItemSection(ListOf(l)) : l \in ItemLists}
    \cup {ItemSection(Absent), VideoA, ChannelB, UnknownItem, NullNode}
    \cup {Marker(t) : t \in Tokens \cup {NoToken}}
    \cup {Node({"itemSectionRenderer", "continuationItemRenderer"}, Undefined, TextAbsent,
               ListOf(<<VideoA>>), "tokB")}
SectionLists(n) == SeqsUpTo(Sections, n)

\* the responses whose section lists have at most n elements
Responses(n) ==
    {Response(ListOf(l), Absent) : l \in SectionLists(n)}
    \cup {Response(Absent, ListOf(<<Command(TRUE, ListOf(l))>>)) : l \in SectionLists(n)}
    \cup {NullResponse, UndefinedResponse, Response(Absent, Absent),
          Response(NotAList, Absent), Response(Absent, NotAList),
          Response(Absent, ListOf(<<Command(FALSE, Absent)>>)),
          Response(Absent, ListOf(<<Command(TRUE, Absent)>>)),
          Response(Absent, ListOf(<<NullCommand>>)),
          Response(Absent, ListOf(<<Command(FALSE, Absent),
                                    Command(TRUE, ListOf(<<VideoA>>)),
                                    Command(TRUE, ListOf(<<ChannelB>>))>>)),
          Response(ListOf(<<VideoA>>), ListOf(<<Command(TRUE, ListOf(<<ChannelB>>))>>))}

InitParser ==
    /\ now = 0
    /\ maxAge = MaxAgeBound
    /\ capacity = DefaultCapacity
    /\ useCache = TRUE
    /\ keys = <<>>
    /\ store = EmptyStore
    /\ lastOp = NoOp
    /\ phase = "inserting"
    /\ inserted = <<>>
    /\ pool = {}
    /\ call = [c \in CallIds |-> IdleCall]
    /\ fetched = EmptyStore
    /\ cleared = "no"
    /\ used = <<>>
    /\ input \in Responses(MaxSections)
    /\ output = NotApplied

Parse ==
    /\ output = NotApplied
    /\ output' = parseSearchResults(input)
    /\ UNCHANGED <<now, maxAge, capacity, useCache, cleared, used, keys, store,
                   cacheVars, clientVars, input>>

NextParser == Parse

SpecParser == InitParser /\ [][NextParser]_vars

-----------------------------------------------------------------------------
(* Transport.post: one request from the fetch call to the value returned or   *)
(* the error thrown. A message is the sequence of the phrases it is made of   *)

FailedToFetch == "Failed to fetch"
\* what fetch, response.text() or response.json() reject with when the
\* connection fails, by runtime
ConnectivityErrors ==
    {<<FailedToFetch>>, <<"fetch failed">>, <<"Load failed">>}
SyntaxError == <<"Unexpected token < in JSON">>
NetworkError ==
    <<"Network error: Failed to connect. Check your internet connection or proxy settings.">>
FailureStatuses == {404, 502}
StatusTexts == {"", "Bad Gateway"}
\* the text of an error response: empty, a server's page, a proxy's report
ErrorTexts == {<<>>, <<"Internal Server Error">>, <<"proxy:", FailedToFetch>>}

\* String.prototype.includes, phrase by phrase
includes(message, phrase) == phrase \in Range(message)

\* `Request failed: ${response.status} ${response.statusText} - ${errorText}`
requestFailed(status, statusText, errorText) ==
    <<"Request failed:", ToString(status), statusText, "-">> \o errorText

\* the catch block: the error thrown out of post
enhance(error) == IF includes(error, FailedToFetch) THEN NetworkError ELSE error

PostRequests ==
    [kind : {"request"}, proxyUrl : {"", "https://proxy.example/"},
     body : {initialBody("cats"), continuationBody("tokA")}]
\* a call of post: where it is, the status line it saw, whether fetch or a
\* body read rejected, and the message of the error it threw
PostCall(pc, status, statusText, rejected, error) ==
    [kind |-> "post", pc |-> pc, status |-> status, statusText |-> statusText,
     rejected |-> rejected, error |-> error]

InitTransport ==
    /\ now = 0
    /\ maxAge = MaxAgeBound
    /\ capacity = DefaultCapacity
    /\ useCache = FALSE
    /\ keys = <<>>
    /\ store = EmptyStore
    /\ lastOp = NoOp
    /\ phase = "inserting"
    /\ inserted = <<>>
    /\ pool = {}
    /\ call = [c \in CallIds |-> IdleCall]
    /\ fetched = EmptyStore
    /\ cleared = "no"
    /\ used = <<>>
    /\ input \in PostRequests
    /\ output = NotApplied

Settle(after) ==
    /\ output' = after
    /\ UNCHANGED <<now, maxAge, capacity, useCache, cleared, used, keys, store,
                   cacheVars, clientVars, input>>

\* post(url, body) up to await this.fetch(...)
PostStart ==
    /\ output = NotApplied
    /\ Settle(PostCall("awaitFetch", 0, "", FALSE, <<>>))

FetchRejects(error) ==
    /\ output # NotApplied /\ output.pc = "awaitFetch"
    /\ Settle(PostCall("thrown", 0, "", TRUE, enhance(error)))

\* fetch resolves: if (!response.ok) await response.text(), else await
\* response.json()
FetchResolves(status, statusText) ==
    /\ output # NotApplied /\ output.pc = "awaitFetch"
    /\ Settle(PostCall(IF status \in FailureStatuses THEN "awaitText" ELSE "awaitJson",
                       status, statusText, FALSE, <<>>))

\* the error text arrives: throw new Error(...) inside the try block
TextResolves(errorText) ==
    /\ output # NotApplied /\ output.pc = "awaitText"
    /\ Settle([output EXCEPT !.pc = "thrown",
                   !.error = enhance(requestFailed(output.status, output.statusText,
                                                   errorText))])

BodyRejects(error) ==
    /\ output # NotApplied /\ output.pc \in {"awaitText", "awaitJson"}
    /\ Settle([output EXCEPT !.pc = "thrown", !.rejected = TRUE, !.error = enhance(error)])

JsonResolves ==
    /\ output # NotApplied /\ output.pc = "awaitJson"
    /\ Settle([output EXCEPT !.pc = "returned"])

JsonRejects ==
    /\ output # NotApplied /\ output.pc = "awaitJson"
    /\ Settle([output EXCEPT !.pc = "thrown", !.error = enhance(SyntaxError)])

NextTransport ==
    \/ PostStart
    \/ \E error \in ConnectivityErrors : FetchRejects(error)
    \/ \E status \in FailureStatuses \cup {200}, statusText \in StatusTexts :
           FetchResolves(status, statusText)
    \/ \E errorText \in ErrorTexts : TextResolves(errorText)
    \/ \E error \in ConnectivityErrors : BodyRejects(error)
    \/ JsonResolves
    \/ JsonRejects

SpecTransport == InitTransport /\ [][NextTransport]_vars

-----------------------------------------------------------------------------
(* The cache driven directly, with a record of when each key was last set or  *)
(* read with a hit, kept apart from the index                                 *)

InitRecency ==
    /\ now = 0
    /\ maxAge = MaxAgeBound
    /\ capacity \in 1..MaxCapacity
    /\ useCache = TRUE
    /\ keys = <<>>
    /\ store = EmptyStore
    /\ lastOp = NoOp
    /\ phase = "other"
    /\ inserted = <<>>
    /\ pool = {}
    /\ call = [c \in CallIds |-> IdleCall]
    /\ fetched = EmptyStore
    /\ cleared = "no"
    /\ used = <<>>
    /\ input = NoInput
    /\ output = NotApplied

\* a completed operation: the caller saw seen, and key counts as used now if
\* the operation was a set or a get that returned a value
Completed(after, seen, usedNow) ==
    /\ keys' = after.keys
    /\ store' = after.store
    /\ lastOp' = seen
    /\ used' = IF usedNow THEN Append(FilterOut(used, seen.key), seen.key) ELSE used
    /\ UNCHANGED <<now, maxAge, capacity, useCache, cleared, phase, inserted,
                   clientVars, fnVars>>

RecencySet(key, value) ==
    Completed(set(Cache, key, value, now, capacity),
              [NoOp EXCEPT !.name = "set", !.key = key], TRUE)

RecencyGet(key) ==
    LET after == get(Cache, key, now, maxAge)
    IN Completed(after, [NoOp EXCEPT !.name = "get", !.key = key, !.hit = after.hit,
                                     !.value = after.value], after.hit)

RecencyRemove(key) ==
    Completed(remove(Cache, key), [NoOp EXCEPT !.name = "remove", !.key = key], FALSE)

RecencyClear == Completed(clear(Cache), [NoOp EXCEPT !.name = "clear"], FALSE)

NextRecency ==
    \/ \E key \in CacheKeys : RecencySet(key, <<>>)
    \/ \E key \in CacheKeys : RecencyGet(key)
    \/ \E key \in CacheKeys : RecencyRemove(key)
    \/ RecencyClear
    \/ Tick

SpecRecency == InitRecency /\ [][NextRecency]_vars

-----------------------------------------------------------------------------
(* search fed with raw responses: each one goes through parseSearchResults    *)
(* before search filters its records, strips the known ids and appends        *)

\* { videoRenderer: { title: { runs: [...] } } }: no videoId
VideoNoId == Item({"videoRenderer"}, Undefined, GoodTitle)
RawItems == {VideoA, VideoNoId, PlaylistNoId}
RawSections ==
    {<<ItemSection(ListOf(items)), Marker(token)>> :
        items \in SeqsUpTo(RawItems, MaxContents), token \in {"tokA", NoToken}}
\* the answer to an initial request and the answer to a continuation request
RawInitial == {Response(ListOf(sections), Absent) : sections \in RawSections}
RawContinuation ==
    {Response(Absent, ListOf(<<Command(TRUE, ListOf(sections))>>)) : sections \in RawSections}
RawArgs == [query : {"cats"}, limit : 1..MaxLimit, type : {"video", "playlist", "all"}]

\* parsed.results and parsed.continuationToken, as search reads them
pageOf(parsed) == [results |-> parsed.results, token |-> parsed.continuationToken]

InitRaw ==
    /\ now = 0
    /\ maxAge = MaxAgeBound
    /\ capacity = DefaultCapacity
    /\ useCache = FALSE
    /\ keys = <<>>
    /\ store = EmptyStore
    /\ lastOp = NoOp
    /\ phase = "inserting"
    /\ inserted = <<>>
    /\ pool = RawArgs
    /\ call = [c \in CallIds |-> IdleCall]
    /\ fetched = EmptyStore
    /\ cleared = "no"
    /\ used = <<>>
    /\ input = NoInput
    /\ output = NotApplied

\* rawData arrives: parseSearchResults(rawData), then the filter and the loop
RawReceiveInitial(c, rawData) ==
    /\ call[c].pc = "awaitInitial"
    /\ input' = rawData
    /\ output' = parseSearchResults(rawData)
    /\ Proceed(c, initialParsed(call[c], pageOf(parseSearchResults(rawData))))
    /\ UNCHANGED <<now, maxAge, capacity, useCache, cleared, used, cacheVars, pool>>

\* nextRaw arrives: parseSearchResults(nextRaw), filter, drop known ids, append
RawReceiveContinuation(c, nextRaw) ==
    /\ call[c].pc = "awaitContinuation"
    /\ input' = nextRaw
    /\ output' = parseSearchResults(nextRaw)
    /\ Proceed(c, continuationParsed(call[c], pageOf(parseSearchResults(nextRaw))))
    /\ UNCHANGED <<now, maxAge, capacity, useCache, cleared, used, cacheVars, pool>>

NextRaw ==
    \/ \E c \in CallIds, a \in RawArgs : SearchStart(c, a)
    \/ \E c \in CallIds, rawData \in RawInitial : RawReceiveInitial(c, rawData)
    \/ \E c \in CallIds, nextRaw \in RawContinuation : RawReceiveContinuation(c, nextRaw)
    \/ \E c \in CallIds : TransportFails(c)

SpecRaw == InitRaw /\ [][NextRaw]_vars

-----------------------------------------------------------------------------
(* Two LRUCache instances over one store and one namespace, such as the       *)
(* caches of two clients in one origin: in this part keys maps each instance  *)
(* to its own in-memory index, loaded when it was constructed                 *)

Instances == {"u1", "u2"}
SharedKeys == {"k1", "k2"}
CacheOf(u) == [keys |-> keys[u], store |-> store]
SharedOp(name, u, key) == [name |-> name, user |-> u, key |-> key]

InitShared ==
    /\ now = 0
    /\ maxAge = MaxAgeBound
    /\ capacity \in 1..MaxCapacity
    /\ useCache = TRUE
    /\ keys = [u \in Instances |-> <<>>]
    /\ store = EmptyStore
    /\ lastOp = SharedOp("none", "", "")
    /\ phase = "other"
    /\ inserted = <<>>
    /\ pool = {}
    /\ call = [c \in CallIds |-> IdleCall]
    /\ fetched = EmptyStore
    /\ cleared = "no"
    /\ used = <<>>
    /\ input = NoInput
    /\ output = NotApplied

\* an operation of instance u ran to its end: its index and the shared store
SharedDone(u, after, seen) ==
    /\ keys' = [keys EXCEPT ![u] = after.keys]
    /\ store' = after.store
    /\ lastOp' = seen
    /\ UNCHANGED <<now, maxAge, capacity, useCache, cleared, used, fnVars, phase, inserted,
                   clientVars>>

SharedSet(u, key) ==
    SharedDone(u, set(CacheOf(u), key, <<>>, now, capacity), SharedOp("set", u, key))

SharedGet(u, key) ==
    SharedDone(u, get(CacheOf(u), key, now, maxAge), SharedOp("get", u, key))

SharedRemove(u, key) ==
    SharedDone(u, remove(CacheOf(u), key), SharedOp("remove", u, key))

SharedClear(u) == SharedDone(u, clear(CacheOf(u)), SharedOp("clear", u, ""))

\* instance u is replaced by a new LRUCache over the store as it is
SharedConstruct(u) ==
    SharedDone(u, loadKeysUnder(store, {}), SharedOp("construct", u, ""))

NextShared ==
    \/ \E u \in Instances, key \in SharedKeys : SharedSet(u, key)
    \/ \E u \in Instances, key \in SharedKeys : SharedGet(u, key)
    \/ \E u \in Instances, key \in SharedKeys : SharedRemove(u, key)
    \/ \E u \in Instances : SharedClear(u)
    \/ \E u \in Instances : SharedConstruct(u)

SpecShared == InitShared /\ [][NextShared]_vars

-----------------------------------------------------------------------------
(* Two search calls on one client whose cache is one entry short of full:     *)
(* earlier searches left capacity - 1 entries, so that the calls' own keys    *)
(* evict. used lists, apart from the index, the keys a completed search       *)
(* wrote or was served from, least recent first, without those evicted,       *)
(* found expired or cleared since                                             *)

EarlierKeys == [i \in 1..(DefaultCapacity - 1) |-> cacheKey(ToString(i), 20, "video")]
EarlierStore ==
    [n \in {IndexName} \cup {fullKey(k) : k \in Range(EarlierKeys)} |->
        IF n = IndexName THEN KeysDoc(EarlierKeys) ELSE ItemDoc(<<>>, 0)]

InitCooperative ==
    /\ now = 0
    /\ maxAge \in 1..MaxAgeBound
    /\ capacity = DefaultCapacity
    /\ useCache = TRUE
    /\ keys = EarlierKeys
    /\ store = EarlierStore
    /\ lastOp = NoOp
    /\ phase = "inserting"
    /\ inserted = <<>>
    /\ pool = ConcurrentArgs
    /\ call = [c \in ConcurrentCalls |-> IdleCall]
    /\ fetched = EmptyStore
    /\ cleared = "no"
    /\ used = EarlierKeys
    /\ input = NoInput
    /\ output = NotApplied

\* the least recently used keys leave until cap are left
Newest(ks, cap) == IF Len(ks) > cap THEN SubSeq(ks, Len(ks) - cap + 1, Len(ks)) ELSE ks

CooperativeStart(c, a) ==
    LET key == cacheKey(a.query, a.limit, a.type)
        read == get(Cache, key, now, maxAge)
    IN /\ StartCall(c, a, read)
       /\ used' = IF read.hit THEN Append(FilterOut(used, key), key)
                  ELSE IF StoredTs(key) >= 0 THEN FilterOut(used, key)
                  ELSE used
       /\ UNCHANGED <<now, maxAge, capacity, useCache, cleared, fnVars, cacheVars, pool>>

CooperativeResume(c, st) ==
    LET key == cacheKey(st.query, st.limit, st.type)
    IN /\ Proceed(c, st)
       /\ used' = IF call'[c].pc = "returned"
                  THEN Newest(Append(FilterOut(used, key), key), capacity)
                  ELSE used
       /\ UNCHANGED <<now, maxAge, capacity, useCache, cleared, fnVars, cacheVars, pool>>

CooperativeReceiveInitial(c, page) ==
    /\ call[c].pc = "awaitInitial"
    /\ CooperativeResume(c, initialParsed(call[c], page))

CooperativeReceiveContinuation(c, page) ==
    /\ call[c].pc = "awaitContinuation"
    /\ CooperativeResume(c, continuationParsed(call[c], page))

CooperativeClearCache ==
    /\ ClearCall(clear(Cache))
    /\ used' = <<>>
    /\ UNCHANGED <<now, maxAge, capacity, useCache, cleared, fnVars, cacheVars, pool, call>>

NextCooperative ==
    \/ \E c \in ConcurrentCalls, a \in ConcurrentArgs : CooperativeStart(c, a)
    \/ \E c \in ConcurrentCalls, page \in ConcurrentPages : CooperativeReceiveInitial(c, page)
    \/ \E c \in ConcurrentCalls, page \in ConcurrentPages :
           CooperativeReceiveContinuation(c, page)
    \/ \E c \in ConcurrentCalls : TransportFails(c)
    \/ CooperativeClearCache
    \/ Tick

SpecCooperative == InitCooperative /\ [][NextCooperative]_vars

-----------------------------------------------------------------------------
(* The cache driven directly with the key 'keys' among its keys: its entry    *)
(* is stored under the name of the index document                             *)

ReservedKeys == {"k1", "keys"}

NextReserved ==
    \/ \E key \in ReservedKeys, value \in CacheValues : CacheSet(key, value)
    \/ \E key \in ReservedKeys : CacheGet(key)
    \/ \E key \in ReservedKeys : CacheRemove(key)
    \/ CacheClear
    \/ Tick

SpecReserved == InitCache /\ [][NextReserved]_vars

-----------------------------------------------------------------------------
(* Properties of search *)

IsPrefix(s, t) == Len(s) <= Len(t) /\ SubSeq(t, 1, Len(s)) = s
Occurrences(results, id) == Cardinality({i \in DOMAIN results : results[i].id = id})
IdsOf(results) == {r.id : r \in Range(results)}
Returned(c) == call[c].pc = "returned"

\* C1: a returned sequence is never longer than the limit, whether it was
\* fetched or served from the cache
C1_LimitRespected ==
    \A c \in CallIds : Returned(c) => Len(call[c].result) <= call[c].limit

C1_Witness ==
    \E c \in CallIds :
        /\ Returned(c) /\ call[c].fromCache
        /\ call[c].limit = 1 /\ Len(call[c].result) = 1
        /\ \E a \in DOMAIN fetched : a[2] = 0

\* C2: an id that a later page repeats after an earlier page returned it
\* occurs exactly once in the accumulated sequence and in the result
C2_DedupOnce ==
    \A c \in CallIds : \A id \in call[c].repeated :
        /\ Occurrences(call[c].combinedResults, id) = 1
        /\ Returned(c) => Occurrences(call[c].result, id) = 1

\* C3: a call issues at most 6 transport requests, has at most one of them
\* outstanding, and has returned once 6 responses were parsed
C3_RequestCeiling ==
    \A c \in CallIds :
        /\ call[c].requests <= 6
        /\ Awaiting(c) => call[c].requests = call[c].parsed + 1
        /\ Returned(c) => call[c].requests = call[c].parsed
        /\ call[c].parsed = 6 => Returned(c)

C3_Witness ==
    \E c \in CallIds :
        /\ Returned(c) /\ call[c].requests = 6
        /\ call[c].limit >= 1
        /\ call[c].result = <<>>
        /\ call[c].continuationToken # NoToken

\* C7: a call that starts while the result of a fetched search of the same
\* (query, limit, type) is stored and unexpired returns that result with no
\* transport request; no other call is served from the cache
C7_CacheHit ==
    \A c \in CallIds :
        /\ call[c].priorKnown =>
              /\ Returned(c) /\ call[c].fromCache
              /\ call[c].requests = 0 /\ call[c].parsed = 0
              /\ call[c].result = call[c].priorResult
        /\ call[c].fromCache => call[c].priorKnown

C7_Witness ==
    \E c \in CallIds :
        /\ Returned(c) /\ call[c].fromCache
        /\ Len(call[c].result) = 1
        /\ Len(keys) = 2
        /\ now >= 1

\* C8: a call with an empty, null or undefined query has thrown 'Query is
\* required' with no transport request, no cache read and no cache write
C8_QueryRequired ==
    \A c \in CallIds :
        call[c].pc # "idle" /\ call[c].query \in {"", Null, Undefined} =>
            /\ call[c].pc = "thrown" /\ call[c].error = "Query is required"
            /\ call[c].requests = 0 /\ call[c].gets = 0 /\ call[c].sets = 0

C8_Witness ==
    \E c \in CallIds :
        /\ call[c].pc = "thrown" /\ call[c].query = ""
        /\ Len(keys) = 2

\* C9: with a type other than 'all' every accumulated and every returned
\* record has that type; with 'all' no record leaves but as a known id
C9_TypeFilter ==
    \A c \in CallIds :
        /\ call[c].type # "all" =>
              \A r \in Range(call[c].combinedResults) \cup Range(call[c].result) :
                  r.type = call[c].type
        /\ call[c].type = "all" /\ call[c].parsed >= 1 =>
              /\ IdsOf(call[c].combinedResults) = call[c].seenIds
              /\ Len(call[c].combinedResults) >= call[c].firstLen

C9_Witness ==
    \E c \in CallIds :
        /\ Returned(c) /\ call[c].type = "channel"
        /\ call[c].requests >= 2
        /\ Len(call[c].result) = 1
        /\ call[c].seenIds = {"a", "b"}

\* the only request in flight is the initial one before any response, or a
\* continuation carrying the token of the response parsed last
C10_InFlight ==
    \A c \in CallIds :
        /\ call[c].pc = "awaitInitial" =>
              /\ call[c].body = initialBody(call[c].query)
              /\ call[c].requests = 1 /\ call[c].parsed = 0
        /\ call[c].pc = "awaitContinuation" =>
              /\ call[c].body.kind = "continuation"
              /\ call[c].body.continuation = call[c].lastToken
              /\ call[c].lastToken # NoToken
              /\ call[c].requests = call[c].parsed + 1
        /\ ~Awaiting(c) => call[c].body = NoBody

\* a response only appends to what earlier pages accumulated
C10_AppendOnly ==
    \A c \in CallIds :
        call[c].pc = "awaitContinuation" /\ call'[c].pc # "thrown" =>
            IsPrefix(call[c].combinedResults, call'[c].combinedResults)

\* C10: pages are fetched strictly one after the other, each continuation
\* request carrying the token of the previous response, each page appended
\* after the records of the earlier pages
C10_Sequential == []C10_InFlight /\ [][C10_AppendOnly]_vars

C10_Witness ==
    \E c \in CallIds :
        /\ call[c].pc = "awaitContinuation"
        /\ call[c].parsed = 2
        /\ call[c].body.continuation = "tokB"
        /\ Len(call[c].combinedResults) = 2

\* C11: once a parsed page carries no token the call has returned with no
\* request outstanding and, when they are no more than limit, with all the
\* accumulated records; after the two-videos-and-a-channel page with a token
\* and the one-new-video page without, limit 5 and type 'all' return the
\* four records in upstream order after exactly 2 requests
C11_TokenExhausted ==
    \A c \in CallIds :
        /\ call[c].parsed >= 1 /\ call[c].lastToken = NoToken =>
              /\ Returned(c)
              /\ call[c].requests = call[c].parsed
              /\ call[c].body = NoBody
              /\ Len(call[c].combinedResults) <= call[c].limit =>
                    call[c].result = call[c].combinedResults
        /\ /\ call[c].limit = 5 /\ call[c].type = "all"
           /\ call[c].parsed = 2 /\ call[c].firstLen = 3
           /\ call[c].lastToken = NoToken
           /\ call[c].seenIds = {"v1", "v2", "c1", "v3"}
           => /\ Returned(c)
              /\ call[c].result = ScenarioFirst.results \o ScenarioLast.results
              /\ call[c].requests = 2

C11_Witness ==
    \E c \in CallIds :
        /\ Returned(c) /\ ~call[c].fromCache
        /\ call[c].limit = 5 /\ call[c].type = "all"
        /\ call[c].requests = 2 /\ call[c].parsed = 2
        /\ call[c].lastToken = NoToken
        /\ Len(call[c].result) = 4

NoEntryFor(c) ==
    fullKey(cacheKey(call[c].query, call[c].limit, call[c].type)) \notin DOMAIN store

\* a call that failed before any response was parsed
C12_FailedInitial ==
    \A c \in CallIds :
        call[c].pc = "thrown" /\ call[c].requests >= 1 /\ call[c].parsed = 0 =>
            /\ call[c].error = "Request failed"
            /\ call[c].requests = 1 /\ call[c].body = NoBody
            /\ call[c].sets = 0 /\ call[c].result = <<>>
            /\ NoEntryFor(c)

\* the step that ends the wait for the initial response without parsing one
C12_FailureStep ==
    \A c \in CallIds :
        /\ call[c].pc = "awaitInitial"
        /\ call'[c] # call[c] /\ call'[c].parsed = call[c].parsed
        => /\ call'[c].pc = "thrown" /\ call'[c].error = "Request failed"
           /\ call'[c].requests = 1
           /\ keys' = keys /\ store' = store

\* C12: when the transport fails on the initial request the call throws that
\* failure, has issued its only request, and neither the index nor the store
\* changes: no entry exists for the call's key
C12_InitialFailure == []C12_FailedInitial /\ [][C12_FailureStep]_vars

C12_Witness ==
    \E c \in CallIds :
        /\ call[c].pc = "thrown" /\ call[c].error = "Request failed"
        /\ call[c].parsed = 0
        /\ useCache /\ Len(keys) = 1

\* a call that failed after at least one parsed page
C13_FailedLater ==
    \A c \in CallIds :
        call[c].pc = "thrown" /\ call[c].parsed >= 1 =>
            /\ call[c].error = "Request failed"
            /\ call[c].result = <<>> /\ ~call[c].fromCache
            /\ call[c].sets = 0 /\ call[c].body = NoBody
            /\ NoEntryFor(c)

\* the step that ends the wait for a continuation response without parsing one
C13_FailureStep ==
    \A c \in CallIds :
        /\ call[c].pc = "awaitContinuation"
        /\ call'[c] # call[c] /\ call'[c].parsed = call[c].parsed
        => /\ call'[c].pc = "thrown" /\ call'[c].error = "Request failed"
           /\ call'[c].result = <<>> /\ call'[c].sets = 0
           /\ keys' = keys /\ store' = store

\* C13: when the transport fails on a continuation request the call throws
\* that failure; the records accumulated so far are not returned and nothing
\* is written to the cache
C13_ContinuationFailure == []C13_FailedLater /\ [][C13_FailureStep]_vars

C13_Witness ==
    \E c \in CallIds :
        /\ call[c].pc = "thrown" /\ call[c].error = "Request failed"
        /\ call[c].parsed = 2
        /\ Len(call[c].combinedResults) = 4
        /\ useCache /\ keys = <<>>

-----------------------------------------------------------------------------
(* Properties of the cache *)

KeptKeys == {inserted[i] : i \in 2..Len(inserted)}
FilledByInserts ==
    phase \in {"inserting", "reading"} /\ Len(inserted) = capacity + 1

\* C4: after sets of capacity+1 distinct keys on an empty cache and no expiry,
\* the first key has no entry and every get of it is a miss, while a get of
\* any later key is a hit that leaves that key at the most-recent end
C4_LRU ==
    FilledByInserts =>
        /\ fullKey(inserted[1]) \notin DOMAIN store
        /\ inserted[1] \notin Range(keys)
        /\ lastOp.name = "get" /\ lastOp.key = inserted[1] => ~lastOp.hit
        /\ lastOp.name = "get" /\ lastOp.key \in KeptKeys =>
              lastOp.hit /\ keys # <<>> /\ keys[Len(keys)] = lastOp.key

C4_Witness ==
    /\ FilledByInserts
    /\ phase = "reading"
    /\ capacity = MaxCapacity
    /\ lastOp.name = "get" /\ lastOp.hit
    /\ lastOp.key = inserted[2]
    /\ Len(keys) = capacity

\* C5: a set at time T stores timestamp T; a get that finds an entry of
\* timestamp T is a hit strictly before T+maxAge, and strictly after
\* T+maxAge it is a miss that removes the key from the index and the entry
\* from the store
C5_TTL ==
    /\ lastOp.name = "set" => StoredTs(lastOp.key) = now
    /\ lastOp.name = "get" /\ lastOp.ts >= 0 =>
          /\ now < lastOp.ts + maxAge => lastOp.hit
          /\ now > lastOp.ts + maxAge =>
                /\ ~lastOp.hit
                /\ lastOp.key \notin Range(keys)
                /\ fullKey(lastOp.key) \notin DOMAIN store

C5_Witness ==
    /\ lastOp.name = "get" /\ lastOp.ts >= 0
    /\ now > lastOp.ts + maxAge
    /\ ~lastOp.hit
    /\ Len(keys) >= 1

\* C6: after every completed operation the keys of the index are exactly
\* the keys that have a stored entry in the namespace
C6_IndexMatchesStore ==
    {fullKey(k) : k \in Range(keys)} = DOMAIN store \ {IndexName}

C6_Witness ==
    /\ lastOp.name = "set"
    /\ phase = "other"
    /\ Len(keys) = capacity
    /\ lastOp.ts = -1
    /\ Cardinality(DOMAIN store) = capacity + 1

\* C15: with capacity 0, once a set of k has completed the index is empty,
\* the store holds no entry for k and a get of k is a miss
C15_CapacityZero ==
    capacity = 0 /\ lastOp.name = "set" =>
        /\ keys = <<>>
        /\ fullKey(lastOp.key) \notin DOMAIN store
        /\ ~get(Cache, lastOp.key, now, maxAge).hit

\* what a get that found an entry did to it when it was a miss
ExpiredOnRead ==
    /\ ~lastOp.hit
    /\ lastOp.key \notin Range(keys)
    /\ fullKey(lastOp.key) \notin DOMAIN store

\* C16 as stated: with maxAge <= 0 every get that finds an entry, at any read
\* time from the write time on, is a miss that removes the entry
C16_NonPositiveAge ==
    maxAge <= 0 /\ lastOp.name = "get" /\ lastOp.ts >= 0 => ExpiredOnRead

\* C16: with a negative maxAge every get that finds an entry is a miss that
\* removes it; with maxAge = 0 that holds for a read strictly after the write
\* time, while a read at the write time itself is a hit
C16_NonPositiveAgeAmended ==
    maxAge <= 0 /\ lastOp.name = "get" /\ lastOp.ts >= 0 =>
        IF maxAge < 0 \/ now > lastOp.ts
        THEN ExpiredOnRead
        ELSE lastOp.hit /\ fullKey(lastOp.key) \in DOMAIN store

C16_Witness ==
    /\ maxAge = 0 /\ lastOp.name = "get" /\ lastOp.ts >= 0
    /\ now = lastOp.ts + 1
    /\ ~lastOp.hit
    /\ Len(keys) >= 1

\* a remove of k leaves no entry and no index place for k, and every other
\* key's stored document and relative place in the index as they were
C18_RemoveStep ==
    lastOp'.name = "remove" =>
        LET k == lastOp'.key
        IN /\ fullKey(k) \notin DOMAIN store'
           /\ k \notin Range(keys')
           /\ keys' = SelectSeq(keys, LAMBDA x : x # k)
           /\ \A j \in CacheKeys \ {k} :
                  getItem(store', fullKey(j)) = getItem(store, fullKey(j))
           /\ k \notin Range(keys) /\ fullKey(k) \notin DOMAIN store =>
                  /\ keys' = keys
                  /\ \A j \in CacheKeys :
                         getItem(store', fullKey(j)) = getItem(store, fullKey(j))

\* C18: remove(k) deletes k's stored entry and index entry and changes no
\* other key's value, timestamp or relative order; with k absent the cached
\* keys, their values and their order stay as they were
C18_RemoveFrame == [][C18_RemoveStep]_vars

C18_Witness ==
    /\ lastOp.name = "remove" /\ lastOp.ts >= 0
    /\ Len(keys) = 1
    /\ Cardinality(DOMAIN store) = 2
    /\ capacity = 2

\* C19: once clear has completed the index is empty and a get of any key is
\* a miss; an entry exists only for a key that was set through this cache
C19_ClearEmpties ==
    lastOp.name = "clear" =>
        /\ keys = <<>>
        /\ \A k \in CacheKeys : ~get(Cache, k, now, maxAge).hit

\* what every operation shows under faults: no exception leaves it, and no
\* search call fails but on the transport
NeverThrown ==
    /\ lastOp.name # "none" => ~lastOp.thrown
    /\ \A c \in CallIds : call[c].pc = "thrown" => call[c].error = "Request failed"

\* C14 as stated: no cache operation throws whatever store call, parse or
\* index value fails in it, a get in which something failed returns absent,
\* and a search fails only when the transport does
C14_FaultTolerant ==
    /\ NeverThrown
    /\ lastOp.name = "get" /\ lastOp.failed # {} => ~lastOp.hit

\* the get found an entry that is not older than maxAge
FoundFresh == lastOp.ts >= 0 /\ now - lastOp.ts <= maxAge

\* C14: no cache operation throws whatever fails in it and a search fails
\* only when the transport does; a get in which something failed returns
\* absent, except that a get of an unexpired entry whose promotion could not
\* write the index returns the stored value
C14_FaultTolerantAmended ==
    /\ NeverThrown
    /\ lastOp.name = "get" /\ lastOp.failed # {} =>
          IF lastOp.failed = {"setItem(keys)"} /\ FoundFresh
          THEN lastOp.hit
          ELSE ~lastOp.hit

\* a fetched search has returned although its cache write was dropped, on a
\* cache whose index was read back as something that is no list
C14_Witness ==
    /\ \E c \in CallIds :
           /\ Returned(c) /\ ~call[c].fromCache /\ Len(call[c].result) = 1
           /\ call[c].sets = 1 /\ NoEntryFor(c)
    /\ keys = NonList

\* a get of a key whose stored text is not JSON
C17_CorruptStep ==
    lastOp'.name = "get" /\ getItem(store, fullKey(lastOp'.key)).kind = "corrupt" =>
        /\ ~lastOp'.hit
        /\ keys' = keys
        /\ store' = store

\* C17: a get of a key whose stored text is not valid JSON returns absent
\* and leaves the stored text, every other entry and the index as they were
C17_CorruptEntry == [][C17_CorruptStep]_vars

C17_Witness ==
    /\ lastOp.name = "get" /\ lastOp.failed = {"JSON.parse"}
    /\ lastOp.key \in Range(keys)
    /\ getItem(store, fullKey(lastOp.key)).kind = "corrupt"

\* a clearCache step: it changes no call; on a caching client it leaves the
\* index empty and no entry for any search, on another it changes nothing
C20_ClearStep ==
    cleared' = "yes" /\ cleared # "yes" =>
        /\ call' = call
        /\ IF useCache
           THEN /\ keys' = <<>>
                /\ \A a \in ConcurrentArgs :
                       fullKey(cacheKey(a.query, a.limit, a.type)) \notin DOMAIN store'
           ELSE keys' = keys /\ store' = store

\* the step is the start of a call that goes to the transport
StartsFetching ==
    \E c \in ConcurrentCalls :
        /\ ~Awaiting(c)
        /\ call'[c].pc = "awaitInitial" /\ call'[c].requests = 1
        /\ ~call'[c].fromCache

-----------------------------------------------------------------------------
(* Properties of the cache key *)

\* C21: two distinct (query, limit, type) combinations with a non-empty query,
\* a non-negative integer limit and one of the four types never get the same
\* cache key, so neither reads or overwrites the other's entry
C21_KeyInjective ==
    output # NotApplied /\ input.first # input.second => output.first # output.second

\* the keys of ("cats_1", 2, video) and ("cats", 1, video) were derived: the
\* query of one ends in what the other's limit adds
C21_Witness ==
    /\ output # NotApplied
    /\ input.first = [query |-> "cats_1", limit |-> 2, type |-> "video"]
    /\ input.second = [query |-> "cats", limit |-> 1, type |-> "video"]
    /\ output.first = "cats_1_2_video"
    /\ output.second = "cats_1_video"

-----------------------------------------------------------------------------
(* Properties of getText *)

\* the runs' text in order, built from the last run backwards
RECURSIVE InOrder(_)
InOrder(runs) ==
    IF runs = <<>> THEN ""
    ELSE InOrder(SubSeq(runs, 1, Len(runs) - 1))
         \o (IF runs[Len(runs)] = Undefined THEN "" ELSE runs[Len(runs)])

\* a node of the four shapes: every run is an object
OfTheFourShapes(data) == Null \notin Range(data.runs)

\* the policy with "present" read as "the field exists"
PolicyIfPresent(data) ==
    IF data.kind = "absent" THEN ""
    ELSE IF data.kind = "string" THEN data.text
    ELSE IF data.simpleText # Undefined THEN data.simpleText
    ELSE IF data.hasRuns THEN InOrder(data.runs)
    ELSE ""

\* the policy with "present" read as "the field exists and is not empty"
PolicyIfNonEmpty(data) ==
    IF data.kind = "absent" THEN ""
    ELSE IF data.kind = "string" THEN data.text
    ELSE IF data.simpleText \notin {Undefined, ""} THEN data.simpleText
    ELSE IF data.hasRuns THEN InOrder(data.runs)
    ELSE ""

\* C25: for every text node of the four shapes, an object carrying both
\* fields and the empty string included, getText does not fail and returns:
\* absent -> ""; string -> itself; simpleText present -> simpleText; else runs
\* present -> the runs' text concatenated in order; else ""
C25_TextPolicy ==
    output # NotApplied /\ OfTheFourShapes(input) =>
        ~output.thrown /\ output.value = PolicyIfPresent(input)

\* C25 as the code has it: a simpleText that is the empty string counts as
\* missing, so a node { simpleText: '', runs } yields the text of its runs
C25_TextPolicyAmended ==
    output # NotApplied /\ OfTheFourShapes(input) =>
        ~output.thrown /\ output.value = PolicyIfNonEmpty(input)

\* getText returned "xy" for { runs: [{ text: 'x' }, { text: 'y' }] }
C25_Witness ==
    /\ output # NotApplied
    /\ input = TextObject(Undefined, TRUE, <<"x", "y">>)
    /\ output.value = "xy"
    /\ ~output.thrown

-----------------------------------------------------------------------------
(* Properties of parseSearchResults *)

\* the response has a section list under the initial path, or else under its
\* first command that carries appended items
OfEitherShape(r) ==
    /\ r.kind = "object"
    /\ \/ r.contents.kind = "list"
       \/ /\ r.contents.kind = "absent"
          /\ r.commands.kind = "list"
          /\ \E i \in DOMAIN r.commands.list :
                /\ r.commands.list[i].action
                /\ r.commands.list[i].continuationItems.kind = "list"
                /\ \A j \in 1..(i - 1) : ~r.commands.list[j].isNull
                                         /\ ~r.commands.list[j].action

SectionsOf(r) ==
    IF r.contents.kind = "list" THEN r.contents.list
    ELSE LET i == CHOOSE i \in DOMAIN r.commands.list : r.commands.list[i].action
                     /\ \A j \in 1..(i - 1) : ~r.commands.list[j].action
         IN r.commands.list[i].continuationItems.list

\* what upstream sent, node by node in its order: a recognizable item, an
\* unrecognized item, a token marker, or a node the traversal cannot read
Met(e, record, token) == [e |-> e, record |-> record, token |-> token]
Unreadable == Met("unreadable", Record(Undefined, "video"), NoToken)
TypeOfItem(item) ==
    IF "videoRenderer" \in item.has THEN "video"
    ELSE IF "channelRenderer" \in item.has THEN "channel" ELSE "playlist"
ItemMet(item) ==
    IF item.isNull THEN Unreadable
    ELSE IF item.has \cap RendererKeys = {}
    THEN Met("unrecognized", Record(Undefined, "video"), NoToken)
    ELSE IF item.title.hasRuns /\ Null \in Range(item.title.runs) THEN Unreadable
    ELSE Met("item", Record(item.id, TypeOfItem(item)), NoToken)

RECURSIVE ItemsMet(_)
ItemsMet(items) ==
    IF items = <<>> THEN <<>> ELSE <<ItemMet(Head(items))>> \o ItemsMet(Tail(items))

SectionMet(s) ==
    IF s.isNull THEN <<Unreadable>>
    ELSE (IF "itemSectionRenderer" \in s.has
          THEN IF s.contents.kind = "list" THEN ItemsMet(s.contents.list)
               ELSE <<Unreadable>>
          ELSE IF s.has \cap RendererKeys # {} THEN <<ItemMet(s)>> ELSE <<>>)
         \o (IF "continuationItemRenderer" \in s.has
             THEN <<Met("marker", Record(Undefined, "video"), s.token)>> ELSE <<>>)

RECURSIVE Upstream(_)
Upstream(sections) ==
    IF sections = <<>> THEN <<>> ELSE SectionMet(Head(sections)) \o Upstream(Tail(sections))

Readable(met) == \A i \in DOMAIN met : met[i].e # "unreadable"
BeforeUnreadable(met) ==
    IF Readable(met) THEN met
    ELSE SubSeq(met, 1, (CHOOSE i \in DOMAIN met :
                            /\ met[i].e = "unreadable"
                            /\ \A j \in 1..(i - 1) : met[j].e # "unreadable") - 1)
RecordsMet(met) ==
    LET items == SelectSeq(met, LAMBDA m : m.e = "item")
    IN [i \in DOMAIN items |-> items[i].record]
\* the token of the last marker that carries one
LastTokenMet(met) ==
    LET carrying == SelectSeq(met, LAMBDA m : m.e = "marker" /\ m.token # NoToken)
    IN IF carrying = <<>> THEN NoToken ELSE carrying[Len(carrying)].token

\* C22: for a response of either shape whose N recognizable items are spread
\* over its sections among unrecognized items, parseSearchResults yields
\* exactly the N records in upstream order; an unrecognized item neither
\* appears nor stops the traversal
C22_RecognizedInOrder ==
    output # NotApplied /\ OfEitherShape(input)
        /\ Readable(Upstream(SectionsOf(input))) =>
        /\ output.results = RecordsMet(Upstream(SectionsOf(input)))
        /\ Len(output.results) =
               Cardinality({i \in DOMAIN Upstream(SectionsOf(input)) :
                                Upstream(SectionsOf(input))[i].e = "item"})

\* a continuation response was parsed: a video and an unknown item in an item
\* section, an unknown section, a direct channel; two records came out
C22_Witness ==
    /\ input = Response(Absent, ListOf(<<Command(TRUE,
                   ListOf(<<ItemSection(ListOf(<<VideoA, UnknownItem>>)),
                            UnknownItem, ChannelB>>))>>))
    /\ output # NotApplied
    /\ output.results = <<Record("a", "video"), Record("b", "channel")>>


\* C23: parseSearchResults never throws, whatever the response: without a
\* section list under either shape it returns no records and no token; when
\* the traversal meets a node it cannot read, it returns exactly the records
\* gathered before that node with the token found before it
C23_FailureContained ==
    output # NotApplied =>
        /\ output.kind = "object"
        /\ ~OfEitherShape(input) =>
               output.results = <<>> /\ output.continuationToken = NoToken
        /\ OfEitherShape(input) /\ ~Readable(Upstream(SectionsOf(input))) =>
               LET before == BeforeUnreadable(Upstream(SectionsOf(input)))
               IN /\ output.results = RecordsMet(before)
                  /\ output.continuationToken = LastTokenMet(before)

\* C24: when several sections are continuation markers, the token returned is
\* that of the last marker carrying one, in section order; a response with a
\* token-carrying marker never yields an absent token
C24_LastCarriedToken ==
    output # NotApplied /\ OfEitherShape(input)
        /\ Readable(Upstream(SectionsOf(input))) =>
        output.continuationToken = LastTokenMet(Upstream(SectionsOf(input)))

\* the {} and { contents: {} } responses, null and undefined
Empties == {NullResponse, UndefinedResponse, Response(Absent, Absent)}

-----------------------------------------------------------------------------
(* Properties of Transport.post *)

\* C27: post reports the network-unreachable condition only when fetch or a
\* body read failed at the connection; a response with a non-success status
\* surfaces as an HTTP error carrying the status, whatever its body text
C27_ConditionsDistinct ==
    output # NotApplied /\ output.pc = "thrown" =>
        /\ output.error = NetworkError => output.rejected
        /\ output.status \in FailureStatuses /\ ~output.rejected =>
               /\ Len(output.error) >= 2
               /\ output.error[1] = "Request failed:"
               /\ output.error[2] = ToString(output.status)

-----------------------------------------------------------------------------
(* Properties of the index *)

\* C28: after every completed set, get, remove or clear on a cache created
\* over an empty store, no key is in the index twice and the index is no
\* longer than capacity
C28_IndexBounded ==
    /\ Len(keys) <= capacity
    /\ \A i, j \in DOMAIN keys : keys[i] = keys[j] => i = j

\* a key that had an entry was set again while the index was full
C28_Witness ==
    /\ lastOp.name = "set"
    /\ lastOp.ts >= 0
    /\ capacity = MaxCapacity
    /\ Len(keys) = capacity
    /\ keys[Len(keys)] = lastOp.key

Position(s, x) == CHOOSE i \in DOMAIN s : s[i] = x

\* a step is a set exactly when it leaves "set" as the last operation; what
\* it evicts is what was indexed, or is the key set, and is not indexed after
C29_EvictStep ==
    lastOp'.name = "set" =>
        \A e \in (Range(keys) \cup {lastOp'.key}) \ Range(keys') :
            \A k \in Range(keys') : Position(used', e) < Position(used', k)

\* C29: whenever set evicts a key, that key is the indexed key whose latest
\* successful get hit or set is the oldest among the indexed keys
C29_EvictsLeastRecentlyUsed == [][C29_EvictStep]_vars

\* capacity 2: k1 and k2 were set, k1 was read, and the set of k3 evicted k2
C29_Witness ==
    /\ capacity = 2
    /\ lastOp.name = "set" /\ lastOp.key = "k3"
    /\ used = <<"k2", "k1", "k3">>
    /\ keys = <<"k1", "k3">>
    /\ fullKey("k2") \notin DOMAIN store

-----------------------------------------------------------------------------
(* Properties of the continuation loop *)

\* the accumulated records of the requested type, and their distinct ids
MatchingIn(results, type) ==
    {i \in DOMAIN results : type = "all" \/ results[i].type = type}
MatchingIds(results, type) == {results[i].id : i \in MatchingIn(results, type)}

\* while a continuation request is out, fewer than limit records of the
\* requested type, and fewer distinct ones, have been accumulated
C30_BelowLimit ==
    \A c \in CallIds : call[c].pc = "awaitContinuation" =>
        /\ Cardinality(MatchingIn(call[c].combinedResults, call[c].type)) < call[c].limit
        /\ Cardinality(MatchingIds(call[c].combinedResults, call[c].type)) < call[c].limit
        /\ call[c].limit > 0

\* the step that takes in the first page: with limit 0 or at least limit
\* records of the requested type the call returns after its one request; with
\* fewer and a token it asks for the next page, whatever else the page held
C30_FirstPageStep ==
    \A c \in CallIds :
        call[c].pc = "awaitInitial" /\ call'[c].pc \notin {"awaitInitial", "thrown"} =>
            LET matching == Cardinality(MatchingIn(call'[c].combinedResults, call'[c].type))
            IN /\ matching >= call'[c].limit =>
                      call'[c].pc = "returned" /\ call'[c].requests = 1
               /\ matching < call'[c].limit /\ call'[c].continuationToken # NoToken =>
                      call'[c].pc = "awaitContinuation" /\ call'[c].requests = 2

\* C30: a continuation request is issued only while the count of accumulated
\* records, filtered by type and deduplicated, is below the limit; a first
\* page with at least limit matching records, or limit 0, means exactly one
\* request; records of another type do not count toward the limit
C30_ContinueOnlyBelowLimit == []C30_BelowLimit /\ [][C30_FirstPageStep]_vars

\* limit 2, type video: the first page held two videos, a channel and a
\* token, and the call returned the two videos after one request
C30_Witness ==
    \E c \in CallIds :
        /\ Returned(c) /\ ~call[c].fromCache
        /\ call[c].limit = 2 /\ call[c].type = "video"
        /\ call[c].lastToken = "tokA"
        /\ call[c].firstLen = 3
        /\ call[c].requests = 1
        /\ call[c].result = <<Record("v1", "video"), Record("v2", "video")>>

-----------------------------------------------------------------------------
(* Properties of search over raw responses *)

WithoutId(results) == SelectSeq(results, LAMBDA r : r.id = Undefined)
OfType(results, type) == SelectSeq(results, LAMBDA r : type = "all" \/ r.type = type)

\* every renderer upstream sent came out of the parser as a record, the ones
\* without an id included
C31_ParserEmits ==
    output # NotApplied => output.results = RecordsMet(Upstream(SectionsOf(input)))

\* a continuation page's records without an id that pass the type filter are
\* all appended
C31_ContinuationStep ==
    \A c \in CallIds :
        call[c].pc = "awaitContinuation" /\ call'[c].pc # "thrown" =>
            WithoutId(call'[c].combinedResults) =
                WithoutId(call[c].combinedResults)
                    \o WithoutId(OfType(output'.results, call[c].type))

\* the same, for calls that have accumulated no record without an id so far
C31_FirstWithoutIdStep ==
    \A c \in CallIds :
        /\ call[c].pc = "awaitContinuation" /\ call'[c].pc # "thrown"
        /\ WithoutId(call[c].combinedResults) = <<>>
        => WithoutId(call'[c].combinedResults) =
               WithoutId(OfType(output'.results, call[c].type))
C31_KeptWhenFirst == [][C31_FirstWithoutIdStep]_vars

\* C31: a record without an id is tolerated end to end: the parser emits it,
\* and on a continuation page it is kept in the accumulated sequence if its
\* type passes the filter, whether or not an earlier record also lacks an id
C31_AbsentIdTolerated == []C31_ParserEmits /\ [][C31_ContinuationStep]_vars

-----------------------------------------------------------------------------
(* Properties of two cache instances over one store *)

PersistedIndex == getItem(store, IndexName).list
HasEntry(st, key) == getItem(st, fullKey(key)).kind = "item"
\* the key has a stored entry and the persisted index does not list it
Lost(key) == HasEntry(store, key) /\ key \notin Range(PersistedIndex)
\* the step is a clear, or a set of another key (the only place of eviction)
SweepsPast(key) ==
    \/ lastOp'.name = "clear"
    \/ lastOp'.name = "set" /\ lastOp'.key # key

\* a lost key's entry survives every clear and every eviction, whoever runs it
C32_LostStaysStep ==
    \A key \in SharedKeys : Lost(key) /\ SweepsPast(key) => HasEntry(store', key)

\* C32: two cache users over one store reach a state where a key has a stored
\* entry and is missing from the persisted index, so that it is never
\* evicted or cleared
C32_LostNeverSwept == [][C32_LostStaysStep]_vars

\* a lost key's entry survives every clear and every eviction run by an
\* instance whose in-memory index does not hold the key
C32_LostStaysWithOthersStep ==
    \A key \in SharedKeys : \A u \in Instances :
        /\ Lost(key) /\ SweepsPast(key)
        /\ lastOp'.user = u /\ key \notin Range(keys[u])
        => HasEntry(store', key)

\* C32 as the code has it: the lost key can still be evicted or cleared by
\* the instance whose in-memory index holds it, and by no other
C32_LostSweptByHolderOnly == [][C32_LostStaysWithOthersStep]_vars

\* u2 has just set k2 over u1's k1: k1 is stored, only u1's in-memory index
\* lists it, the persisted index is [k2]
C32_Witness ==
    /\ lastOp = SharedOp("set", "u2", "k2")
    /\ Lost("k1")
    /\ PersistedIndex = <<"k2">>
    /\ keys["u1"] = <<"k1">> /\ keys["u2"] = <<"k2">>

\* the same loss once u1 was constructed anew: no index lists k1 any more, and
\* u1 has just cleared the cache without removing k1's entry
C32_OrphanWitness ==
    /\ lastOp = SharedOp("clear", "u1", "")
    /\ HasEntry(store, "k1")
    /\ \A u \in Instances : "k1" \notin Range(keys[u])

-----------------------------------------------------------------------------
(* Properties of concurrent search calls on one client *)

\* C33: with search calls that interleave only at their transport awaits
\* the index never holds a key twice, is never longer than the capacity and
\* is what the store holds as the index; every key written by a completed
\* search and not evicted, found expired or cleared since is in the index
\* and has its entry stored
C33_NoLostUpdate ==
    /\ \A i, j \in DOMAIN keys : keys[i] = keys[j] => i = j
    /\ Len(keys) <= capacity
    /\ keys # <<>> => getItem(store, IndexName) = KeysDoc(keys)
    /\ \A i \in DOMAIN used :
          /\ used[i] \in Range(keys)
          /\ getItem(store, fullKey(used[i])).kind = "item"

\* both calls fetched the same combination at the same time and both have
\* written it; the oldest earlier key was evicted on the way
C33_Witness ==
    /\ \A c \in ConcurrentCalls :
          /\ call[c].pc = "returned" /\ ~call[c].fromCache
          /\ call[c].type = "all"
    /\ Len(keys) = capacity
    /\ EarlierKeys[1] \notin Range(keys)
    /\ cacheKey("cats", 1, "video") \in Range(keys)

-----------------------------------------------------------------------------
(* Uniqueness of ids in a fetched result *)

\* C34: the sequence a fetched search returns never holds two records with
\* the same id, whatever the pages, pages that repeat an id included
C34_UniqueIds ==
    \A c \in CallIds :
        Returned(c) /\ ~call[c].fromCache =>
            \A i, j \in DOMAIN call[c].result :
                call[c].result[i].id = call[c].result[j].id => i = j

-----------------------------------------------------------------------------
(* A set whose store write fails *)

StoreWrites == {"setItem(keys)", "setItem(entry)"}

\* C35: a set whose write to the store fails leaves the in-memory index, the
\* persisted index and every stored entry as they were before the call
C35_FailedSetStep ==
    lastOp'.name = "set" /\ lastOp'.failed \cap StoreWrites # {} =>
        keys' = keys /\ store' = store
C35_DroppedWrite == [][C35_FailedSetStep]_vars

-----------------------------------------------------------------------------
(* Caching of empty results *)

\* C36: a call that starts while the empty result of a fetched search of the
\* same (query, limit, type) is stored and unexpired returns the empty
\* sequence from the cache with no transport request
C36_EmptyResultCached ==
    \A c \in CallIds :
        call[c].priorKnown /\ call[c].priorResult = <<>> =>
            /\ Returned(c) /\ call[c].fromCache
            /\ call[c].result = <<>>
            /\ call[c].requests = 0 /\ call[c].parsed = 0

\* a playlist search of the two-videos-and-a-channel upstream found nothing,
\* and the same search, one millisecond later, was answered from the cache
C36_Witness ==
    \E c \in CallIds :
        /\ Returned(c) /\ call[c].fromCache
        /\ call[c].type = "playlist" /\ call[c].limit >= 1
        /\ call[c].result = <<>> /\ call[c].requests = 0
        /\ now = 1

-----------------------------------------------------------------------------
(* The age of an entry *)

\* the timestamp stored with the key's entry, -1 without an entry
TimestampIn(st, key) ==
    IF getItem(st, fullKey(key)).kind = "item"
    THEN getItem(st, fullKey(key)).timestamp ELSE -1

\* a set of the key stamps its entry with the time of the call; no other
\* operation changes the stamp of an entry it leaves in place; a get of an
\* entry stamped more than maxAge ago is a miss that deletes it, any other
\* get of an entry is a hit
C37_AgeStep ==
    \A key \in CacheKeys :
        /\ lastOp'.name = "set" /\ lastOp'.key = key =>
              TimestampIn(store', key) = now'
        /\ ~(lastOp'.name = "set" /\ lastOp'.key = key) =>
              TimestampIn(store', key) \in {TimestampIn(store, key), -1}
        /\ lastOp'.name = "get" /\ lastOp'.key = key /\ TimestampIn(store, key) >= 0 =>
              IF now - TimestampIn(store, key) > maxAge
              THEN ~lastOp'.hit /\ TimestampIn(store', key) = -1
              ELSE lastOp'.hit /\ TimestampIn(store', key) = TimestampIn(store, key)

\* C37: a get hit never extends an entry's life: the age is counted from the
\* last set of the key, and an entry is a miss once more than maxAge has
\* passed since then however often it was read
C37_AgeFromLastSet == [][C37_AgeStep]_vars

\* k1, set at 0, was read with a hit at 1 after k2 was set at 1: it is the
\* most recently used key and its entry is still stamped 0
C37_Witness ==
    /\ lastOp.name = "get" /\ lastOp.key = "k1" /\ lastOp.hit
    /\ now = 1
    /\ TimestampIn(store, "k1") = 0
    /\ TimestampIn(store, "k2") = 1
    /\ used = <<"k2", "k1">>

\* one millisecond later the same entry, read again, is a miss and is gone
C37_ExpiredWitness ==
    /\ lastOp.name = "get" /\ lastOp.key = "k1" /\ ~lastOp.hit
    /\ now = 2
    /\ TimestampIn(store, "k1") = -1
    /\ TimestampIn(store, "k2") = 1
    /\ used = <<"k2", "k1">>

-----------------------------------------------------------------------------
(* The index document *)

\* C38: after a set of any key, 'keys' included, the persisted index
\* document is a list of keys that holds the key, not an entry payload
C38_IndexWellFormed ==
    lastOp.name = "set" =>
        /\ getItem(store, IndexName).kind = "keys"
        /\ lastOp.key \in Range(getItem(store, IndexName).list)

\* the same for every key but 'keys'
C38_IndexWellFormedOtherwise ==
    lastOp.name = "set" /\ lastOp.key # "keys" =>
        /\ getItem(store, IndexName).kind = "keys"
        /\ lastOp.key \in Range(getItem(store, IndexName).list)

-----------------------------------------------------------------------------
(* Persistence: a new LRUCache over the store an instance leaves behind *)

\* new LRUCache(namespace, maxAge, capacity) over the store as it is
Reloaded == [keys |-> loadKeysUnder(store, {}).keys, store |-> store]

\* C39: after any completed set/get/remove/clear a new instance over the
\* same store has the index of the old one, in the same order, and answers
\* every get with the same hit or miss and the same value
C39_RoundTrip ==
    /\ Reloaded.keys = keys
    /\ \A key \in CacheKeys \cup ReservedKeys :
          LET old == getUnder(Cache, key, now, maxAge, {})
              new == getUnder(Reloaded, key, now, maxAge, {})
          IN old.hit = new.hit /\ old.value = new.value

====
